---------------------------- MODULE Spec2Model ----------------------------
(***************************************************************************)
(* Model of the versioned key-value storage (StorageVersioned and          *)
(* TransactionVersioned) over the transactional LSM engine.                *)
(*                                                                         *)
(* Strings that the code formats and parses (version directory names,      *)
(* version IDs) are sequences of one-character strings, so that            *)
(* compose_version_dir_name and the parser of get_all_versions are         *)
(* modelled by what they do.                                               *)
(***************************************************************************)
EXTENDS Integers, Sequences, FiniteSets, TLC

VARIABLES
    csExists,         \* <base>/CurrentState exists on disk
    db,               \* content of the DB in CurrentState: cf name -> key -> value
    versions,         \* the Versions directory: directory name -> content of the checkpoint
    opened,           \* a StorageVersioned value exists (the DB handle is held)
    versions_stored,  \* StorageVersioned.versions_stored of the opened storage
    txs,              \* the TransactionVersioned / Transaction values alive, by slot
    created,          \* history: directory name -> live DB content right after the creating commit
    commitLog,        \* history: IDs of the commits that returned Ok, while only commits followed the creation
    fresh,            \* history: nothing but transactions ran since the storage was created with this bound
    assigned,         \* history: the version numbers create_version has assigned on this path
    rolledTo,         \* history: the number of the version the last rollback restored, while Versions is as it left it; -1 otherwise
    dummy_db,         \* StorageVersioned.db is TransactionDB::dummy_db(): the storage holds no open DB
    lastOp            \* the operation that completed last, with its arguments and result

vars == <<csExists, db, versions, opened, versions_stored, txs, created, commitLog, fresh, assigned,
          rolledTo, dummy_db, lastOp>>

-----------------------------------------------------------------------------
(* Bounds of the model *)

\* largest retention bound passed to open
MaxVersionsStored == 2
\* largest version number a commit may assign
MaxVersionNumber == 2
\* number of transaction slots
MaxTx == 2
\* largest number of savepoints a transaction holds
MaxSavepoints == 2

-----------------------------------------------------------------------------
(* Strings *)

VERSION_DELIMITER == <<"_", "_">>

DigitChars == <<"0", "1", "2", "3", "4", "5", "6", "7", "8", "9">>

IsDigitChar(c) == \E i \in 1..10 : DigitChars[i] = c

DigitValue(c) == (CHOOSE i \in 1..10 : DigitChars[i] = c) - 1

\* usize::to_string
RECURSIVE to_string(_)
to_string(n) ==
    IF n < 10 THEN <<DigitChars[n + 1]>>
    ELSE to_string(n \div 10) \o <<DigitChars[(n % 10) + 1]>>

\* value of a nonempty sequence of decimal digits
RECURSIVE DigitsValue(_)
DigitsValue(s) ==
    IF Len(s) = 0 THEN 0
    ELSE 10 * DigitsValue(SubSeq(s, 1, Len(s) - 1)) + DigitValue(s[Len(s)])

\* str::parse::<usize>: an optional '+', then one or more decimal digits; -1 stands for Err
ParseDigits(body) ==
    IF Len(body) > 0 /\ \A i \in 1..Len(body) : IsDigitChar(body[i])
    THEN DigitsValue(body)
    ELSE -1

ParseUsize(s) == ParseDigits(IF Len(s) > 0 /\ s[1] = "+" THEN Tail(s) ELSE s)

\* position of the first occurrence of the delimiter in s, 0 if there is none
MinOrZero(hits) == IF hits = {} THEN 0 ELSE CHOOSE i \in hits : \A j \in hits : i <= j

FirstDelimiter(s) == MinOrZero({i \in 1..(Len(s) - 1) : SubSeq(s, i, i + 1) = VERSION_DELIMITER})

\* str::split(VERSION_DELIMITER): all the parts between non-overlapping delimiters
RECURSIVE SplitAll(_)
SplitAt(s, i) ==
    IF i = 0 THEN <<s>>
    ELSE <<SubSeq(s, 1, i - 1)>> \o SplitAll(SubSeq(s, i + 2, Len(s)))

SplitAll(s) == SplitAt(s, FirstDelimiter(s))

\* compose_version_dir_name
compose_version_dir_name(version_id, version_number) ==
    to_string(version_number) \o VERSION_DELIMITER \o version_id


-----------------------------------------------------------------------------
(* Data *)

Keys == {"k1", "k2"}
\* the keys the update calls of the model write
WrittenKeys == {"k1"}
Values == {"v1", "v2"}
Absent == "absent"
Tombstone == "deleted"
DefaultCf == "default"

\* the version IDs callers pass: plain ones and one that holds the delimiter
VersionIds == { <<"a">>, <<"b">>, <<"c">>, <<"a", "_", "_", "b">> }

\* the version IDs without the delimiter
PlainIds == {id \in VersionIds : FirstDelimiter(id) = 0}

Tx == 1..MaxTx

EmptyFcn == [x \in {} |-> Absent]

\* a DB right after open_cf_default created it: the default column family, no keys
EmptyDb == [cf \in {DefaultCf} |-> [k \in Keys |-> Absent]]

Restrict(f, S) == [x \in S |-> f[x]]

-----------------------------------------------------------------------------
(* The version directory manager *)

\* Vec::sort of a vector of numbers
Sorted(set) == SortSeq(set, LAMBDA a, b : a < b)

EachFollows_or_repeats(set_sorted) ==
    \A pos \in 1..Len(set_sorted) :
        \/ pos = 1
        \/ set_sorted[pos] = set_sorted[pos - 1] + 1
        \/ set_sorted[pos] = set_sorted[pos - 1]

\* is_contiguous_set: every element but the first of the sorted vector is its predecessor + 1
EachFollows(set_sorted) ==
    \A pos \in 1..Len(set_sorted) :
        \/ pos = 1
        \/ set_sorted[pos] = set_sorted[pos - 1] + 1

is_contiguous_set(set) == EachFollows(Sorted(set))

\* the values of a map as a vector, in some iteration order
RECURSIVE MapValues(_)
MapValuesFrom(m, k) == <<m[k]>> \o MapValues(Restrict(m, DOMAIN m \ {k}))

MapValues(m) ==
    IF DOMAIN m = {} THEN <<>>
    ELSE MapValuesFrom(m, CHOOSE x \in DOMAIN m : TRUE)

\* the closure of get_all_versions that parses one directory name:
\* <<version_id, version_number>>, or <<>> when the name is not accepted
ParsedPair(version_id, version_number) ==
    IF version_number >= 0 THEN <<version_id, version_number>> ELSE <<>>

ParseParts_two_or_more(num_id_splitted) ==
    IF Len(num_id_splitted) < 2 THEN <<>>
    ELSE ParsedPair(num_id_splitted[2], ParseUsize(num_id_splitted[1]))

ParseParts(num_id_splitted) ==
    IF Len(num_id_splitted) # 2 THEN <<>>
    ELSE ParsedPair(num_id_splitted[2], ParseUsize(num_id_splitted[1]))

ParseDirName(num_id) == ParseParts(SplitAll(num_id))

CheckedVersions_any_numbers(paths_count, id_to_num) ==
    IF Cardinality(DOMAIN id_to_num) = paths_count
    THEN [ok |-> TRUE, map |-> id_to_num]
    ELSE [ok |-> FALSE, map |-> EmptyFcn]

\* get_all_versions over the directory names found in Versions:
\* [ok, map] with map the HashMap version_id -> version_number
CheckedVersions(paths_count, id_to_num) ==
    IF Cardinality(DOMAIN id_to_num) = paths_count
    THEN IF is_contiguous_set(MapValues(id_to_num))
         THEN [ok |-> TRUE, map |-> id_to_num]
         ELSE [ok |-> FALSE, map |-> EmptyFcn]
    ELSE [ok |-> FALSE, map |-> EmptyFcn]

CollectMap(parsed) ==
    [id \in {p[1] : p \in parsed} |-> (CHOOSE p \in parsed : p[1] = id)[2]]

get_all_versions(names) ==
    CheckedVersions(Cardinality(names), CollectMap({ParseDirName(n) : n \in names} \ {<<>>}))

MaxOf(S) == CHOOSE x \in S : \A y \in S : y <= x

next_version_number_skip(all_versions_numbers) ==
    IF all_versions_numbers # {} THEN MaxOf(all_versions_numbers) + 2 ELSE 0

next_version_number_count(all_versions_numbers) == Cardinality(all_versions_numbers)

\* next_version_number
next_version_number(all_versions_numbers) ==
    IF all_versions_numbers # {} THEN MaxOf(all_versions_numbers) + 1 ELSE 0

\* clear_path on a directory of Versions: removes it if it exists
clear_path(vs, name) == Restrict(vs, DOMAIN vs \ {name})

TrimBelow_spares_open(vs, k, m, max_version_number) ==
    IF max_version_number >= k
    THEN [res |-> "ok",
          versions |-> Restrict(vs, DOMAIN vs \
                          {d \in {compose_version_dir_name(id, m[id]) :
                                     id \in {i \in DOMAIN m : m[i] < max_version_number - k + 1}} :
                              ~\E o \in DOMAIN txs : txs[o].mode = "snapshot" /\ txs[o].dir = d})]
    ELSE [res |-> "panic", versions |-> vs]

\* trim_versions on the Versions directory vs with bound k:
\* [res, versions], res one of "ok", "err", "panic" (the assert!)
TrimBelow(vs, k, m, max_version_number) ==
    IF max_version_number >= k
    THEN [res |-> "ok",
          versions |-> Restrict(vs, DOMAIN vs \
                          {compose_version_dir_name(id, m[id]) :
                              id \in {i \in DOMAIN m : m[i] < max_version_number - k + 1}})]
    ELSE [res |-> "panic", versions |-> vs]

TrimWith(vs, k, all_versions) ==
    IF ~all_versions.ok THEN [res |-> "err", versions |-> vs]
    ELSE IF Cardinality(DOMAIN all_versions.map) > k
    THEN TrimBelow(vs, k, all_versions.map,
                   MaxOf({all_versions.map[id] : id \in DOMAIN all_versions.map}))
    ELSE [res |-> "ok", versions |-> vs]

trim_versions(vs, k) == TrimWith(vs, k, get_all_versions(DOMAIN vs))

\* the checkpoint of create_version: the directory name gets the content cur
create_checkpoint(vs, name, cur) ==
    [d \in DOMAIN vs \cup {name} |-> IF d = name THEN cur ELSE vs[d]]

CreateNamed(vs, cur, k, name) ==
    IF name \in DOMAIN vs
    THEN [res |-> "err", versions |-> vs]
    ELSE trim_versions(create_checkpoint(vs, name, cur), k)

CreateWith(vs, cur, k, version_id, all_versions) ==
    IF ~all_versions.ok THEN [res |-> "err", versions |-> vs]
    ELSE IF version_id \notin DOMAIN all_versions.map
    THEN CreateNamed(vs, cur, k,
            compose_version_dir_name(version_id,
                next_version_number({all_versions.map[id] : id \in DOMAIN all_versions.map})))
    ELSE [res |-> "err", versions |-> vs]

create_version_at_least_one(vs, cur, k, version_id) ==
    CreateWith(vs, cur, IF k > 0 THEN k ELSE 1, version_id, get_all_versions(DOMAIN vs))

\* create_version(version_id) on the Versions directory vs, with the live DB
\* content cur and bound k: [res, versions]
create_version(vs, cur, k, version_id) ==
    IF k > 0
    THEN CreateWith(vs, cur, k, version_id, get_all_versions(DOMAIN vs))
    ELSE [res |-> "ok", versions |-> vs]

\* the IDs of a map version_id -> version_number in the order of the numbers
RECURSIVE IdsByNumber(_)
IdsFrom(m, first) == <<first>> \o IdsByNumber(Restrict(m, DOMAIN m \ {first}))

IdsByNumber(m) ==
    IF DOMAIN m = {} THEN <<>>
    ELSE IdsFrom(m, CHOOSE id \in DOMAIN m : \A o \in DOMAIN m : m[id] <= m[o])

SortedIds(all_versions) ==
    IF all_versions.ok THEN [ok |-> TRUE, ids |-> IdsByNumber(all_versions.map)]
    ELSE [ok |-> FALSE, ids |-> <<>>]

\* rollback_versions over the directory names found in Versions: [ok, ids]
rollback_versions(names) == SortedIds(get_all_versions(names))

LastOf_first(r) ==
    IF ~r.ok THEN [ok |-> FALSE, some |-> FALSE, id |-> <<>>]
    ELSE IF Len(r.ids) > 0 THEN [ok |-> TRUE, some |-> TRUE, id |-> r.ids[1]]
    ELSE [ok |-> TRUE, some |-> FALSE, id |-> <<>>]

LastOf(r) ==
    IF ~r.ok THEN [ok |-> FALSE, some |-> FALSE, id |-> <<>>]
    ELSE IF Len(r.ids) > 0 THEN [ok |-> TRUE, some |-> TRUE, id |-> r.ids[Len(r.ids)]]
    ELSE [ok |-> TRUE, some |-> FALSE, id |-> <<>>]

\* last_version: [ok, some, id]
last_version(names) == LastOf(rollback_versions(names))

-----------------------------------------------------------------------------
(* The engine's transactions *)

\* no TransactionVersioned in the slot
NoTx == [mode |-> "none", dir |-> <<>>, base |-> EmptyFcn, buf |-> EmptyFcn, done |-> FALSE,
         saves |-> <<>>]

\* the pessimistic lock on <<cf, key>> is held by another transaction on the same DB
LockedByOther(t, ck) ==
    \E o \in Tx \ {t} :
        /\ txs[o].mode = txs[t].mode
        /\ txs[o].dir = txs[t].dir
        /\ ~txs[o].done
        /\ ck \in DOMAIN txs[o].buf

\* Transaction::put / Transaction::delete into a write buffer
BufWrite(buf, ck, v) == [x \in DOMAIN buf \cup {ck} |-> IF x = ck THEN v ELSE buf[x]]

Visible_raw(v) == v

\* what a read finds for a buffered write
Visible(v) == IF v = Tombstone THEN Absent ELSE v

\* the engine's commit: the buffered writes applied to the content of a DB
ApplyBuf(content, buf) ==
    [cf \in DOMAIN content |->
        [k \in Keys |->
            IF <<cf, k>> \in DOMAIN buf THEN Visible(buf[<<cf, k>>]) ELSE content[cf][k]]]

\* the DB a transaction reads below its own writes
BaseOf(t) == IF txs[t].mode \in {"live", "plain"} THEN db ELSE txs[t].base

\* the complete content read through a transaction
TxContent(t) == ApplyBuf(BaseOf(t), txs[t].buf)

\* Reader::get_cf on a transaction
TxGet(t, cf, k) == TxContent(t)[cf][k]

\* TransactionBasic::update: the puts, then the deletes, each in input order;
\* stops at the first write the engine refuses. [ok, buf]
RECURSIVE UpdateLoop(_, _, _, _)
PutStep(t, buf, kv, rest, to_delete) ==
    IF LockedByOther(t, <<DefaultCf, kv[1]>>)
    THEN [ok |-> FALSE, buf |-> buf]
    ELSE UpdateLoop(t, BufWrite(buf, <<DefaultCf, kv[1]>>, kv[2]), rest, to_delete)

DeleteStep(t, buf, k, rest) ==
    IF LockedByOther(t, <<DefaultCf, k>>)
    THEN [ok |-> FALSE, buf |-> buf]
    ELSE UpdateLoop(t, BufWrite(buf, <<DefaultCf, k>>, Tombstone), <<>>, rest)

UpdateLoop(t, buf, to_update, to_delete) ==
    IF Len(to_update) > 0
    THEN PutStep(t, buf, Head(to_update), Tail(to_update), to_delete)
    ELSE IF Len(to_delete) > 0
    THEN DeleteStep(t, buf, Head(to_delete), Tail(to_delete))
    ELSE [ok |-> TRUE, buf |-> buf]

\* the update calls of the model: at most one put and at most one delete
UpdateInputs ==
    {<<p, d>> \in ({<<>>} \cup {<<<<k, v>>>> : k \in WrittenKeys, v \in Values})
                  \X ({<<>>} \cup {<<k>> : k \in WrittenKeys}) : p # <<>> \/ d # <<>>}

\* the record of a completed call: the operation, its result, the slot and the version ID
\* it was given, the number of version directories (of buffered writes, for a
\* rollback of a transaction) it removed; for open, set_column_family, update_cf and the multi_get calls also
\* the arguments they were given, for the multi_get calls the mapping returned, and
\* for a drop the kind of the transaction dropped and the version directory it was on,
\* for a commit whether the call completed just before it was a commit that
\* returned Ok for the same version ID, and the number of the version a
\* rollback had restored when the commit began (-1 when Versions changed since)
Op(name, res, t, id, removed) ==
    [op |-> name, res |-> res, tx |-> t, id |-> id, removed |-> removed,
     args |-> <<>>, out |-> <<>>]

Removed(before, after) == Cardinality(DOMAIN before \ DOMAIN after)

ResOf(ok) == IF ok THEN "ok" ELSE "err"

AnyTxAlive == \E t \in Tx : txs[t].mode # "none"

-----------------------------------------------------------------------------
(* Operations *)

Init ==
    /\ csExists = FALSE
    /\ db = EmptyFcn
    /\ versions = EmptyFcn
    /\ opened = FALSE
    /\ versions_stored = 0
    /\ txs = [t \in Tx |-> NoTx]
    /\ created = EmptyFcn
    /\ commitLog = <<>>
    /\ fresh = FALSE
    /\ assigned = {}
    /\ rolledTo = -1
    /\ dummy_db = FALSE
    /\ lastOp = Op("init", "ok", 0, <<>>, 0)

\* the record of a completed open, with the create_if_missing it was given
Opening(name, res, removed, create_if_missing) ==
    [Op(name, res, 0, <<>>, removed) EXCEPT !.args = <<create_if_missing>>]

Open_creates_anyway(create_if_missing, k) ==
    /\ ~opened
    /\ \E trimmed \in {trim_versions(versions, k)} :
           /\ csExists' = TRUE
           /\ db' = IF csExists THEN db ELSE EmptyDb
           /\ versions' = trimmed.versions
           /\ created' = Restrict(created, DOMAIN trimmed.versions)
           /\ opened' = (trimmed.res = "ok")
           /\ versions_stored' = IF trimmed.res = "ok" THEN k ELSE versions_stored
           /\ fresh' = (~csExists /\ trimmed.res = "ok")
           /\ commitLog' = <<>>
           /\ lastOp' = Opening("open", trimmed.res, Removed(versions, trimmed.versions),
                                create_if_missing)
           /\ rolledTo' = IF DOMAIN trimmed.versions = DOMAIN versions THEN rolledTo ELSE -1
           /\ UNCHANGED <<txs, assigned, dummy_db>>

\* StorageVersioned::open(path, create_if_missing, k)
Open(create_if_missing, k) ==
    /\ ~opened
    /\ IF ~csExists /\ ~create_if_missing
       THEN /\ lastOp' = Opening("open", "err", 0, create_if_missing)
            /\ UNCHANGED <<csExists, db, versions, opened, versions_stored, txs,
                           created, commitLog, fresh, rolledTo>>
       ELSE \E trimmed \in {trim_versions(versions, k)} :
                /\ csExists' = TRUE
                /\ db' = IF csExists THEN db ELSE EmptyDb
                /\ versions' = trimmed.versions
                /\ created' = Restrict(created, DOMAIN trimmed.versions)
                /\ opened' = (trimmed.res = "ok")
                /\ versions_stored' = IF trimmed.res = "ok" THEN k ELSE versions_stored
                /\ fresh' = (~csExists /\ trimmed.res = "ok")
                /\ commitLog' = <<>>
                /\ lastOp' = Opening("open", trimmed.res, Removed(versions, trimmed.versions),
                                     create_if_missing)
                /\ rolledTo' = IF DOMAIN trimmed.versions = DOMAIN versions
                               THEN rolledTo ELSE -1
                /\ UNCHANGED txs
    /\ UNCHANGED <<assigned, dummy_db>>

\* drop of the StorageVersioned value
Close ==
    /\ opened
    /\ ~AnyTxAlive
    /\ opened' = FALSE
    /\ fresh' = FALSE
    /\ commitLog' = <<>>
    /\ dummy_db' = FALSE
    /\ lastOp' = Op("close", "ok", 0, <<>>, 0)
    /\ UNCHANGED <<csExists, db, versions, versions_stored, txs, created, assigned, rolledTo>>

\* TransactionDB::open_cf_all on a version directory: refused while the DB in it is open
OpenDir(dir) ==
    IF dir \in DOMAIN versions /\ ~\E o \in Tx : txs[o].mode = "snapshot" /\ txs[o].dir = dir
    THEN [ok |-> TRUE, dir |-> dir]
    ELSE [ok |-> FALSE, dir |-> <<>>]

OpenVersionWith(version_id, all_versions) ==
    IF all_versions.ok /\ version_id \in DOMAIN all_versions.map
    THEN OpenDir(compose_version_dir_name(version_id, all_versions.map[version_id]))
    ELSE [ok |-> FALSE, dir |-> <<>>]

\* open_version(version_id): [ok, dir]
open_version(version_id) == OpenVersionWith(version_id, get_all_versions(DOMAIN versions))

SnapshotTx(db_version) ==
    IF db_version.ok
    THEN [ok |-> TRUE, tx |-> [NoTx EXCEPT !.mode = "snapshot",
                                           !.dir = db_version.dir,
                                           !.base = versions[db_version.dir]]]
    ELSE [ok |-> FALSE, tx |-> NoTx]

\* create_transaction(version_id_opt): [ok, tx]
create_transaction(some, version_id) ==
    IF some
    THEN SnapshotTx(open_version(version_id))
    ELSE [ok |-> TRUE, tx |-> [NoTx EXCEPT !.mode = "live"]]

CreateTransaction(t, some, version_id) ==
    /\ opened
    /\ ~dummy_db   \* calls on the dummy handle are not modelled
    /\ txs[t].mode = "none"
    /\ \E r \in {create_transaction(some, version_id)} :
           /\ txs' = [txs EXCEPT ![t] = r.tx]
           /\ lastOp' = Op(IF some THEN "create_transaction_version" ELSE "create_transaction",
                           ResOf(r.ok), t, version_id, 0)
    /\ UNCHANGED <<csExists, db, versions, opened, versions_stored, created, commitLog, fresh,
                   assigned, rolledTo, dummy_db>>

\* TransactionBasic::update(to_update, to_delete) on an uncommitted transaction
Update(t, to_update, to_delete) ==
    /\ txs[t].mode # "none"
    /\ ~txs[t].done
    /\ \E r \in {UpdateLoop(t, txs[t].buf, to_update, to_delete)} :
           /\ txs' = [txs EXCEPT ![t].buf = r.buf]
           /\ lastOp' = Op("update", ResOf(r.ok), t, <<>>, 0)
    /\ UNCHANGED <<csExists, db, versions, opened, versions_stored, created, commitLog, fresh,
                   assigned, rolledTo, dummy_db>>

\* drop of a TransactionVersioned value
DropTransaction(t) ==
    /\ txs[t].mode # "none"
    /\ txs' = [txs EXCEPT ![t] = NoTx]
    /\ lastOp' = [Op("drop_transaction", "ok", t, <<>>, 0)
                   EXCEPT !.args = <<txs[t].mode, txs[t].dir>>]
    /\ UNCHANGED <<csExists, db, versions, opened, versions_stored, created, commitLog, fresh,
                   assigned, rolledTo, dummy_db>>

\* what a call that changes nothing leaves behind
Refused(t) == [res |-> "err", db |-> db, versions |-> versions, tx |-> txs[t]]

Committed(t, committed, cv) ==
    [res |-> cv.res, db |-> committed, versions |-> cv.versions,
     tx |-> [txs[t] EXCEPT !.buf = EmptyFcn, !.done = TRUE, !.saves = <<>>]]

CommitLive_early(t, version_id, committed) ==
    Committed(t, committed, create_version(versions, db, versions_stored, version_id))

\* self.transaction.commit()?; storage.create_version(version_id)
CommitLive(t, version_id, committed) ==
    Committed(t, committed, create_version(versions, committed, versions_stored, version_id))

commit_any(t, version_id) ==
    IF txs[t].done
    THEN Refused(t)
    ELSE CommitLive(t, version_id, ApplyBuf(db, txs[t].buf))

\* TransactionVersioned::commit(version_id) of the transaction in slot t:
\* [res, db, versions, tx], the result and what the call leaves behind
commit(t, version_id) ==
    IF txs[t].mode = "live"
    THEN IF txs[t].done
         THEN Refused(t)   \* the engine refuses to commit a transaction twice
         ELSE CommitLive(t, version_id, ApplyBuf(db, txs[t].buf))
    ELSE Refused(t)

NumbersOf(all_versions) == {all_versions.map[id] : id \in DOMAIN all_versions.map}

\* the number create_version would assign next (0 when the directory does not parse)
NextNumber == next_version_number(NumbersOf(get_all_versions(DOMAIN versions)))

Commit(t, version_id) ==
    /\ txs[t].mode # "none"
    /\ NextNumber <= MaxVersionNumber
    /\ \E r \in {commit(t, version_id)} :
           /\ db' = r.db
           /\ versions' = r.versions
           /\ txs' = [txs EXCEPT ![t] = r.tx]
           /\ created' = [d \in DOMAIN r.versions |->
                             IF d \in DOMAIN versions THEN created[d] ELSE r.db]
           /\ commitLog' = IF fresh /\ r.res = "ok" /\ versions_stored > 0
                           THEN Append(commitLog, version_id) ELSE commitLog
           /\ assigned' = IF DOMAIN r.versions \subseteq DOMAIN versions
                          THEN assigned ELSE assigned \cup {NextNumber}
           /\ rolledTo' = IF DOMAIN r.versions = DOMAIN versions THEN rolledTo ELSE -1
           /\ lastOp' = [Op("commit", r.res, t, version_id, Removed(versions, r.versions))
                            EXCEPT !.args = <<lastOp.op = "commit" /\ lastOp.res = "ok"
                                                /\ lastOp.id = version_id>>,
                                   !.out = <<rolledTo, dummy_db>>]
    /\ UNCHANGED <<csExists, opened, versions_stored, fresh, dummy_db>>

Restore_keep_db(dir, later) ==
    IF dir \in DOMAIN versions
    THEN [ok |-> TRUE, db |-> db,
          versions |-> Restrict(versions, DOMAIN versions \ later)]
    ELSE [ok |-> FALSE, db |-> db, versions |-> versions]

\* the copy of the version replaces CurrentState, the versions after it are removed
Restore(dir, later) ==
    IF dir \in DOMAIN versions
    THEN [ok |-> TRUE, db |-> versions[dir],
          versions |-> Restrict(versions, DOMAIN versions \ later)]
    ELSE [ok |-> FALSE, db |-> db, versions |-> versions]

RollbackTo_inclusive(version_id, m, version_number) ==
    Restore(compose_version_dir_name(version_id, version_number),
            {compose_version_dir_name(id, m[id]) :
                id \in {i \in DOMAIN m : m[i] >= version_number}})

RollbackTo(version_id, m, version_number) ==
    Restore(compose_version_dir_name(version_id, version_number),
            {compose_version_dir_name(id, m[id]) :
                id \in {i \in DOMAIN m : m[i] > version_number}})

RollbackWith_clear_first(version_id, all_versions) ==
    IF all_versions.ok /\ version_id \in DOMAIN all_versions.map
    THEN RollbackTo(version_id, all_versions.map, all_versions.map[version_id])
    ELSE [ok |-> FALSE, db |-> EmptyDb, versions |-> versions]

RollbackWith(version_id, all_versions) ==
    IF all_versions.ok /\ version_id \in DOMAIN all_versions.map
    THEN RollbackTo(version_id, all_versions.map, all_versions.map[version_id])
    ELSE [ok |-> FALSE, db |-> db, versions |-> versions]

\* StorageVersioned::rollback(version_id): [ok, db, versions]
rollback(version_id) == RollbackWith(version_id, get_all_versions(DOMAIN versions))

\* the copy of the version directory into the base directory failed
NotCopied == [ok |-> FALSE, db |-> db, versions |-> versions]

\* rollback(version_id), with the copy succeeding or failing
Rollback(version_id, copied) ==
    /\ opened
    /\ ~dummy_db
    /\ ~AnyTxAlive
    /\ \E r \in {IF copied THEN rollback(version_id) ELSE NotCopied} :
           /\ db' = r.db
           /\ versions' = r.versions
           /\ created' = Restrict(created, DOMAIN r.versions)
           /\ fresh' = (fresh /\ ~r.ok)
           /\ commitLog' = IF r.ok THEN <<>> ELSE commitLog
           /\ rolledTo' = IF r.ok THEN get_all_versions(DOMAIN versions).map[version_id]
                          ELSE rolledTo
           /\ lastOp' = Op("rollback", ResOf(r.ok), 0, version_id, Removed(versions, r.versions))
    /\ UNCHANGED <<csExists, opened, versions_stored, txs, assigned, dummy_db>>

RenameFailed_after_delete(version_id, m, version_number) ==
    [reached |-> TRUE,
     versions |-> Restrict(versions, DOMAIN versions \
                     {compose_version_dir_name(id, m[id]) :
                         id \in {i \in DOMAIN m : m[i] > version_number}})]

\* rollback up to a rename that fails: the copy is made, self.db is the dummy,
\* CurrentState is removed, and the call returns before any version is deleted
RenameFailed(version_id, m, version_number) ==
    [reached |-> compose_version_dir_name(version_id, version_number) \in DOMAIN versions,
     versions |-> versions]

\* [reached, versions]: whether the call gets to the rename, and the Versions
\* directory it leaves when the rename fails
RenameFailedWith(version_id, all_versions) ==
    IF all_versions.ok /\ version_id \in DOMAIN all_versions.map
    THEN RenameFailed(version_id, all_versions.map, all_versions.map[version_id])
    ELSE [reached |-> FALSE, versions |-> versions]

\* rollback(version_id) when the rename of the copy to CurrentState fails
RollbackRenameFails(version_id) ==
    /\ opened
    /\ ~dummy_db
    /\ ~AnyTxAlive
    /\ \E r \in {RenameFailedWith(version_id, get_all_versions(DOMAIN versions))} :
           /\ r.reached
           /\ versions' = r.versions
           /\ created' = Restrict(created, DOMAIN r.versions)
    /\ dummy_db' = TRUE
    /\ csExists' = FALSE
    /\ db' = EmptyFcn
    /\ fresh' = FALSE
    /\ lastOp' = [Op("rollback", "err", 0, version_id, 0) EXCEPT !.args = <<"rename">>]
    /\ UNCHANGED <<opened, versions_stored, txs, commitLog, assigned, rolledTo>>

\* the next-state relation over the given slots, version IDs and update calls
NextOver(slots, ids, updates) ==
    \/ \E c \in BOOLEAN, k \in 0..MaxVersionsStored : Open(c, k)
    \/ Close
    \/ \E t \in slots : CreateTransaction(t, FALSE, <<>>)
    \/ \E t \in slots, id \in ids : CreateTransaction(t, TRUE, id)
    \/ \E t \in slots, u \in updates : Update(t, u[1], u[2])
    \/ \E t \in slots : DropTransaction(t)
    \/ \E t \in slots, id \in ids : Commit(t, id)
    \/ \E id \in ids, copied \in BOOLEAN : Rollback(id, copied)

\* one transaction at a time, every version ID
Next == NextOver({1}, VersionIds, UpdateInputs)

Spec == Init /\ [][Next]_vars

\* one transaction at a time, the plain version IDs
NextPlain == NextOver({1}, PlainIds, UpdateInputs)

SpecPlain == Init /\ [][NextPlain]_vars

\* the same, with rollbacks whose rename fails
NextRename ==
    \/ NextPlain
    \/ \E id \in PlainIds : RollbackRenameFails(id)

SpecRename == Init /\ [][NextRename]_vars

\* transactions side by side, on two plain version IDs
NextTx == NextOver(Tx, {<<"a">>, <<"b">>}, UpdateInputs)

SpecTx == Init /\ [][NextTx]_vars

\* transactions side by side, on a plain version ID and one that holds the delimiter
NextTxAny == NextOver(Tx, {<<"a">>, <<"a", "_", "_", "b">>}, UpdateInputs)

SpecTxAny == Init /\ [][NextTxAny]_vars

-----------------------------------------------------------------------------
(* Column families, savepoints and the plain Storage *)

\* the column family names callers pass
CfNames == {"cf1"}

\* ColumnFamiliesManager::get_column_family(cf_name): a handle, or None
get_column_family(cf_name) == cf_name \in DOMAIN db

\* create_cf: a new column family without keys
create_cf(content, cf_name) ==
    [cf \in DOMAIN content \cup {cf_name} |->
        IF cf = cf_name THEN [k \in Keys |-> Absent] ELSE content[cf]]

set_column_family_recreate(cf_name) == create_cf(db, cf_name)

\* ColumnFamiliesManager::set_column_family(cf_name): the content of the DB after the call
set_column_family(cf_name) ==
    IF ~get_column_family(cf_name) THEN create_cf(db, cf_name) ELSE db

SetColumnFamily(cf_name) ==
    /\ opened
    /\ ~AnyTxAlive
    /\ db' = set_column_family(cf_name)
    /\ lastOp' = [Op("set_column_family", "ok", 0, <<>>, 0) EXCEPT !.args = <<cf_name>>]
    /\ UNCHANGED <<csExists, versions, opened, versions_stored, txs, created, commitLog, fresh,
                   assigned, rolledTo, dummy_db>>

\* TransactionBasic::update_cf: the puts, then the deletes, each in input order,
\* on the column family cf; stops at the first write the engine refuses. [ok, buf]
RECURSIVE UpdateCfLoop_deletes_first(_, _, _, _, _)
UpdateCfLoop_deletes_first(t, cf, buf, to_update, to_delete) ==
    IF Len(to_delete) > 0
    THEN UpdateCfLoop_deletes_first(t, cf, BufWrite(buf, <<cf, Head(to_delete)>>, Tombstone),
                                    to_update, Tail(to_delete))
    ELSE IF Len(to_update) > 0
    THEN UpdateCfLoop_deletes_first(t, cf,
                                    BufWrite(buf, <<cf, Head(to_update)[1]>>, Head(to_update)[2]),
                                    Tail(to_update), to_delete)
    ELSE [ok |-> TRUE, buf |-> buf]

RECURSIVE UpdateCfLoop(_, _, _, _, _)
PutCfStep(t, cf, buf, kv, rest, to_delete) ==
    IF LockedByOther(t, <<cf, kv[1]>>)
    THEN [ok |-> FALSE, buf |-> buf]
    ELSE UpdateCfLoop(t, cf, BufWrite(buf, <<cf, kv[1]>>, kv[2]), rest, to_delete)

DeleteCfStep(t, cf, buf, k, rest) ==
    IF LockedByOther(t, <<cf, k>>)
    THEN [ok |-> FALSE, buf |-> buf]
    ELSE UpdateCfLoop(t, cf, BufWrite(buf, <<cf, k>>, Tombstone), <<>>, rest)

UpdateCfLoop(t, cf, buf, to_update, to_delete) ==
    IF Len(to_update) > 0
    THEN PutCfStep(t, cf, buf, Head(to_update), Tail(to_update), to_delete)
    ELSE IF Len(to_delete) > 0
    THEN DeleteCfStep(t, cf, buf, Head(to_delete), Tail(to_delete))
    ELSE [ok |-> TRUE, buf |-> buf]

\* update_cf(cf, to_update, to_delete) on an uncommitted transaction, with the
\* handle of a column family of the DB the transaction is on
UpdateCf(t, cf, to_update, to_delete) ==
    /\ txs[t].mode # "none"
    /\ ~txs[t].done
    /\ cf \in DOMAIN BaseOf(t)
    /\ \E r \in {UpdateCfLoop(t, cf, txs[t].buf, to_update, to_delete)} :
           /\ txs' = [txs EXCEPT ![t].buf = r.buf]
           /\ lastOp' = [Op("update_cf", ResOf(r.ok), t, <<>>, 0)
                          EXCEPT !.args = <<cf, to_update, to_delete>>]
    /\ UNCHANGED <<csExists, db, versions, opened, versions_stored, created, commitLog, fresh,
                   assigned, rolledTo, dummy_db>>

\* Transaction::set_savepoint: the write buffer is pushed on the savepoint stack
set_savepoint(tx) == [tx EXCEPT !.saves = Append(tx.saves, tx.buf)]

\* TransactionBasic::save
Save(t) ==
    /\ txs[t].mode # "none"
    /\ Len(txs[t].saves) < MaxSavepoints
    /\ txs' = [txs EXCEPT ![t] = set_savepoint(txs[t])]
    /\ lastOp' = Op("save", "ok", t, <<>>, 0)
    /\ UNCHANGED <<csExists, db, versions, opened, versions_stored, created, commitLog, fresh,
                   assigned, rolledTo, dummy_db>>

rollback_to_savepoint_to_begin(tx) ==
    IF Len(tx.saves) > 0
    THEN [ok |-> TRUE,
          tx |-> [tx EXCEPT !.buf = tx.saves[Len(tx.saves)],
                            !.saves = SubSeq(tx.saves, 1, Len(tx.saves) - 1)]]
    ELSE [ok |-> TRUE, tx |-> [tx EXCEPT !.buf = EmptyFcn]]

rollback_to_savepoint_fifo(tx) ==
    IF Len(tx.saves) > 0
    THEN [ok |-> TRUE, tx |-> [tx EXCEPT !.buf = tx.saves[1], !.saves = Tail(tx.saves)]]
    ELSE [ok |-> FALSE, tx |-> tx]

\* Transaction::rollback_to_savepoint: the top of the stack is popped and becomes
\* the write buffer; NotFound when the stack is empty. [ok, tx]
rollback_to_savepoint(tx) ==
    IF Len(tx.saves) > 0
    THEN [ok |-> TRUE,
          tx |-> [tx EXCEPT !.buf = tx.saves[Len(tx.saves)],
                            !.saves = SubSeq(tx.saves, 1, Len(tx.saves) - 1)]]
    ELSE [ok |-> FALSE, tx |-> tx]

\* TransactionBasic::rollback_to_savepoint
RollbackToSavepoint(t) ==
    /\ txs[t].mode # "none"
    /\ \E r \in {rollback_to_savepoint(txs[t])} :
           /\ txs' = [txs EXCEPT ![t] = r.tx]
           /\ lastOp' = Op("rollback_to_savepoint", ResOf(r.ok), t, <<>>, 0)
    /\ UNCHANGED <<csExists, db, versions, opened, versions_stored, created, commitLog, fresh,
                   assigned, rolledTo, dummy_db>>

transaction_rollback_to_first(tx) ==
    IF tx.done
    THEN [ok |-> FALSE, tx |-> tx]
    ELSE [ok |-> TRUE,
          tx |-> [tx EXCEPT !.buf = IF Len(tx.saves) > 0 THEN tx.saves[1] ELSE EmptyFcn,
                            !.saves = <<>>]]

\* Transaction::rollback: the write buffer and the savepoints are cleared;
\* refused once the transaction is committed. [ok, tx]
transaction_rollback(tx) ==
    IF tx.done
    THEN [ok |-> FALSE, tx |-> tx]
    ELSE [ok |-> TRUE, tx |-> [tx EXCEPT !.buf = EmptyFcn, !.saves = <<>>]]

\* TransactionBasic::rollback
RollbackTransaction(t) ==
    /\ txs[t].mode # "none"
    /\ \E r \in {transaction_rollback(txs[t])} :
           /\ txs' = [txs EXCEPT ![t] = r.tx]
           /\ lastOp' = Op("transaction_rollback", ResOf(r.ok), t, <<>>,
                           Removed(txs[t].buf, r.tx.buf))
    /\ UNCHANGED <<csExists, db, versions, opened, versions_stored, created, commitLog, fresh,
                   assigned, rolledTo, dummy_db>>

\* Storage::open(path, create_if_missing)
StorageOpen(create_if_missing) ==
    /\ ~opened
    /\ IF ~csExists /\ ~create_if_missing
       THEN /\ lastOp' = Opening("storage_open", "err", 0, create_if_missing)
            /\ UNCHANGED <<csExists, db, opened>>
       ELSE /\ csExists' = TRUE
            /\ db' = IF csExists THEN db ELSE EmptyDb
            /\ opened' = TRUE
            /\ lastOp' = Opening("storage_open", "ok", 0, create_if_missing)
    /\ UNCHANGED <<versions, versions_stored, txs, created, commitLog, fresh, assigned, rolledTo, dummy_db>>

\* Storage::create_transaction
StorageCreateTransaction(t) ==
    /\ opened
    /\ txs[t].mode = "none"
    /\ txs' = [txs EXCEPT ![t] = [NoTx EXCEPT !.mode = "plain"]]
    /\ lastOp' = Op("storage_create_transaction", "ok", t, <<>>, 0)
    /\ UNCHANGED <<csExists, db, versions, opened, versions_stored, created, commitLog, fresh,
                   assigned, rolledTo, dummy_db>>

transaction_commit_default_only(t) ==
    IF txs[t].done
    THEN [ok |-> FALSE, db |-> db, tx |-> txs[t]]
    ELSE [ok |-> TRUE,
          db |-> ApplyBuf(db, Restrict(txs[t].buf,
                                       {ck \in DOMAIN txs[t].buf : ck[1] = DefaultCf})),
          tx |-> [txs[t] EXCEPT !.buf = EmptyFcn, !.done = TRUE, !.saves = <<>>]]

\* Transaction::commit of the transaction in slot t: [ok, db, tx]
transaction_commit(t) ==
    IF txs[t].done
    THEN [ok |-> FALSE, db |-> db, tx |-> txs[t]]
    ELSE [ok |-> TRUE, db |-> ApplyBuf(db, txs[t].buf),
          tx |-> [txs[t] EXCEPT !.buf = EmptyFcn, !.done = TRUE, !.saves = <<>>]]

TransactionCommit(t) ==
    /\ txs[t].mode = "plain"
    /\ \E r \in {transaction_commit(t)} :
           /\ db' = r.db
           /\ txs' = [txs EXCEPT ![t] = r.tx]
           /\ lastOp' = Op("transaction_commit", ResOf(r.ok), t, <<>>, 0)
    /\ UNCHANGED <<csExists, versions, opened, versions_stored, created, commitLog, fresh,
                   assigned, rolledTo, dummy_db>>

\* the update calls on a plain Storage: no put, one put or two puts of the same
\* key, and at most one delete of it
BasicInputs ==
    {u \in {<<>>, <<<<"k1", "v1">>>>, <<<<"k1", "v1">>, <<"k1", "v2">>>>} \X {<<>>, <<"k1">>} :
        u[1] # <<>> \/ u[2] # <<>>}

\* a plain Storage with one transaction at a time
NextBasic ==
    \/ \E c \in BOOLEAN : StorageOpen(c)
    \/ Close
    \/ \E cf \in CfNames : SetColumnFamily(cf)
    \/ StorageCreateTransaction(1)
    \/ \E u \in BasicInputs : Update(1, u[1], u[2])
    \/ \E cf \in CfNames, u \in BasicInputs : UpdateCf(1, cf, u[1], u[2])
    \/ Save(1)
    \/ RollbackToSavepoint(1)
    \/ RollbackTransaction(1)
    \/ TransactionCommit(1)
    \/ DropTransaction(1)

SpecBasic == Init /\ [][NextBasic]_vars

-----------------------------------------------------------------------------
(* Column families of a StorageVersioned *)

\* the column family names asked of a transaction
AskedCfNames == CfNames \cup {DefaultCf}

transaction_get_column_family_of_live(tx, cf_name) ==
    IF tx.mode = "snapshot"
    THEN [ok |-> TRUE, some |-> cf_name \in DOMAIN db]
    ELSE [ok |-> FALSE, some |-> FALSE]

\* TransactionVersioned::get_column_family(cf_name): [ok, some]; db_opt is the
\* DB opened by open_version, which holds the version's column families
transaction_get_column_family(tx, cf_name) ==
    IF tx.mode = "snapshot"
    THEN [ok |-> TRUE, some |-> cf_name \in DOMAIN tx.base]
    ELSE [ok |-> FALSE, some |-> FALSE]

TransactionGetColumnFamily(t, cf_name) ==
    /\ txs[t].mode \in {"live", "snapshot"}
    /\ \E r \in {transaction_get_column_family(txs[t], cf_name)} :
           lastOp' = [Op("transaction_get_column_family", ResOf(r.ok), t, <<>>, 0)
                         EXCEPT !.args = <<cf_name>>, !.out = <<r.some>>]
    /\ UNCHANGED <<csExists, db, versions, opened, versions_stored, txs, created, commitLog,
                   fresh, assigned, rolledTo, dummy_db>>

\* the update calls of a storage with column families: one put
CfInputs == {<<<<<<"k1", "v1">>>>, <<>>>>}

\* a StorageVersioned with column families, one transaction at a time
NextCf ==
    \/ NextOver({1}, {<<"a">>, <<"b">>}, CfInputs)
    \/ \E cf \in CfNames : SetColumnFamily(cf)
    \/ \E cf \in AskedCfNames : TransactionGetColumnFamily(1, cf)

SpecCf == Init /\ [][NextCf]_vars

-----------------------------------------------------------------------------
(* Readers *)

\* Itertools::unique: the keys in input order, each at its first occurrence only
RECURSIVE unique(_, _)
unique(keys, seen) ==
    IF keys = <<>> THEN <<>>
    ELSE IF Head(keys) \in seen THEN unique(Tail(keys), seen)
    ELSE <<Head(keys)>> \o unique(Tail(keys), seen \cup {Head(keys)})

\* HashMap::insert
Insert(map, k, v) == [x \in DOMAIN map \cup {k} |-> IF x = k THEN v ELSE map[x]]

\* .map(|&key| (key.to_vec(), self.get_cf(cf, key))).collect(): each key is read
\* and inserted in turn
RECURSIVE collect(_, _, _, _)
collect(content, cf, keys, map) ==
    IF keys = <<>> THEN map
    ELSE collect(content, cf, Tail(keys), Insert(map, Head(keys), content[cf][Head(keys)]))

multi_get_cf_default(content, cf, keys) == collect(content, DefaultCf, unique(keys, {}), EmptyFcn)

\* Reader::multi_get_cf on a reader that reads content
multi_get_cf(content, cf, keys) == collect(content, cf, unique(keys, {}), EmptyFcn)

\* Reader::multi_get on a reader that reads content
multi_get(content, keys) == collect(content, DefaultCf, unique(keys, {}), EmptyFcn)

\* the readers: 0 is the storage itself, the others are the transaction slots
Readers == {0} \cup Tx

ReaderOpen(reader) == IF reader = 0 THEN opened ELSE txs[reader].mode # "none"

\* what a reader reads: the DB for a storage, the DB under its own writes for a
\* transaction
ReaderContent(reader) == IF reader = 0 THEN db ELSE TxContent(reader)

\* Reader::get_cf
ReaderGet(reader, cf, k) == ReaderContent(reader)[cf][k]

\* the key lists of the multi_get calls of the model: empty, one key, repeated keys
KeyLists == {<<>>, <<"k1">>, <<"k2", "k2">>, <<"k1", "k2", "k1">>}

\* reader.multi_get(keys)
MultiGet(reader, keys) ==
    /\ ReaderOpen(reader)
    /\ lastOp' = [Op("multi_get", "ok", reader, <<>>, 0)
                   EXCEPT !.args = <<DefaultCf, keys>>,
                          !.out = multi_get(ReaderContent(reader), keys)]
    /\ UNCHANGED <<csExists, db, versions, opened, versions_stored, txs, created,
                   commitLog, fresh, assigned, rolledTo, dummy_db>>

\* reader.multi_get_cf(cf, keys), with the handle of a column family of the DB
MultiGetCf(reader, cf, keys) ==
    /\ ReaderOpen(reader)
    /\ cf \in DOMAIN ReaderContent(reader)
    /\ lastOp' = [Op("multi_get_cf", "ok", reader, <<>>, 0)
                   EXCEPT !.args = <<cf, keys>>,
                          !.out = multi_get_cf(ReaderContent(reader), cf, keys)]
    /\ UNCHANGED <<csExists, db, versions, opened, versions_stored, txs, created,
                   commitLog, fresh, assigned, rolledTo, dummy_db>>

\* a plain Storage and one transaction, read through multi_get
NextRead ==
    \/ \E c \in BOOLEAN : StorageOpen(c)
    \/ Close
    \/ \E cf \in CfNames : SetColumnFamily(cf)
    \/ StorageCreateTransaction(1)
    \/ \E u \in BasicInputs : Update(1, u[1], u[2])
    \/ \E cf \in CfNames, u \in BasicInputs : UpdateCf(1, cf, u[1], u[2])
    \/ TransactionCommit(1)
    \/ DropTransaction(1)
    \/ \E reader \in {0, 1}, keys \in KeyLists : MultiGet(reader, keys)
    \/ \E reader \in {0, 1}, cf \in CfNames, keys \in KeyLists : MultiGetCf(reader, cf, keys)

SpecRead == Init /\ [][NextRead]_vars

-----------------------------------------------------------------------------
(* is_contiguous_set on its own *)

\* width of usize in the model
UsizeBits == 2
\* usize::MAX
UsizeMax == 2 ^ UsizeBits - 1
\* longest vector given to is_contiguous_set
MaxLen == 4

\* the vectors of at most MaxLen numbers
UsizeVectors == UNION {[1..n -> 0..UsizeMax] : n \in 0..MaxLen}

\* `prev_elem + 1` is evaluated at a position the loop reaches with
\* prev_elem = usize::MAX: the addition overflows
AdditionOverflows(set_sorted) ==
    \E pos \in 2..Len(set_sorted) :
        /\ set_sorted[pos - 1] = UsizeMax
        /\ \A q \in 2..(pos - 1) : set_sorted[q] = set_sorted[q - 1] + 1

\* is_contiguous_set as built: with overflow checks the overflowing addition
\* panics, without them it wraps and the comparison fails. [res, out]
is_contiguous_set_built(set, overflow_checks) ==
    IF overflow_checks /\ AdditionOverflows(Sorted(set))
    THEN [res |-> "panic", out |-> <<>>]
    ELSE [res |-> "ok", out |-> <<is_contiguous_set(set)>>]

IsContiguousSet(set, overflow_checks) ==
    /\ \E r \in {is_contiguous_set_built(set, overflow_checks)} :
           lastOp' = [Op("is_contiguous_set", r.res, 0, <<>>, 0)
                         EXCEPT !.args = <<set, overflow_checks>>, !.out = r.out]
    /\ UNCHANGED <<csExists, db, versions, opened, versions_stored, txs, created, commitLog,
                   fresh, assigned, rolledTo, dummy_db>>

NextContiguous == \E set \in UsizeVectors, overflow_checks \in BOOLEAN :
                      IsContiguousSet(set, overflow_checks)

SpecContiguous == Init /\ [][NextContiguous]_vars

-----------------------------------------------------------------------------
(* The parser of version directory names on its own *)

\* longest directory name given to the parser
MaxNameLen == 6
\* the characters of the names: a digit, a sign, the delimiter's character, a letter
NameChars == {"0", "+", "_", "a"}
\* the directory names of at most MaxNameLen characters
DirNames == UNION {[1..n -> NameChars] : n \in 0..MaxNameLen}

\* a directory name waits to be parsed
InitParse ==
    /\ csExists = FALSE
    /\ db = EmptyFcn
    /\ versions = EmptyFcn
    /\ opened = FALSE
    /\ versions_stored = 0
    /\ txs = [t \in Tx |-> NoTx]
    /\ created = EmptyFcn
    /\ commitLog = <<>>
    /\ fresh = FALSE
    /\ assigned = {}
    /\ rolledTo = -1
    /\ dummy_db = FALSE
    /\ \E num_id \in DirNames :
           lastOp = [Op("init", "ok", 0, <<>>, 0) EXCEPT !.args = <<num_id>>]

\* the closure of get_all_versions that parses one directory name
ParseName ==
    /\ lastOp.op = "init"
    /\ lastOp' = [Op("parse_dir_name", "ok", 0, <<>>, 0)
                     EXCEPT !.args = lastOp.args, !.out = ParseDirName(lastOp.args[1])]
    /\ UNCHANGED <<csExists, db, versions, opened, versions_stored, txs, created, commitLog,
                   fresh, assigned, rolledTo, dummy_db>>

NextParse == ParseName

SpecParse == InitParse /\ [][NextParse]_vars

-----------------------------------------------------------------------------
(* The iterator modes of the host binding *)

ITER_MODE_START == 0
ITER_MODE_END == 1
ITER_MODE_FROM == 2
ITER_DIRECTION_FORWARD == 0
ITER_DIRECTION_REVERSE == 1

\* largest mode or direction code the host passes; the smallest is -1
MaxCode == 4
Codes == (-1)..MaxCode

\* the starting keys the host passes: null, the empty array, an array of bytes
StartingKeys ==
    { [null |-> TRUE, bytes |-> <<>>], [null |-> FALSE, bytes |-> <<>>],
      [null |-> FALSE, bytes |-> <<"k1">>] }

\* IteratorMode::Start, ::End and ::From(key, direction)
IteratorMode(kind, key, direction) == [kind |-> kind, key |-> key, direction |-> direction]

\* what a failed decoding returns
NoMode == [ok |-> FALSE, mode |-> IteratorMode("none", <<>>, "none")]

\* parse_starting_key(mode, jstarting_key): [ok, key]
parse_starting_key(mode, jstarting_key) ==
    IF jstarting_key.null
    THEN IF mode = ITER_MODE_FROM
         THEN [ok |-> FALSE, key |-> <<>>]
         ELSE [ok |-> TRUE, key |-> <<>>]
    ELSE [ok |-> TRUE, key |-> jstarting_key.bytes]

parse_iterator_mode_always_direction(mode, starting_key, direction) ==
    IF direction \notin {ITER_DIRECTION_FORWARD, ITER_DIRECTION_REVERSE} THEN NoMode
    ELSE IF mode = ITER_MODE_START THEN [ok |-> TRUE, mode |-> IteratorMode("Start", <<>>, "none")]
    ELSE IF mode = ITER_MODE_END THEN [ok |-> TRUE, mode |-> IteratorMode("End", <<>>, "none")]
    ELSE IF mode = ITER_MODE_FROM
    THEN [ok |-> TRUE,
          mode |-> IteratorMode("From", starting_key,
                                IF direction = ITER_DIRECTION_FORWARD
                                THEN "Forward" ELSE "Reverse")]
    ELSE NoMode

\* parse_iterator_mode(mode, starting_key, direction): [ok, mode]
parse_iterator_mode(mode, starting_key, direction) ==
    IF mode = ITER_MODE_START THEN [ok |-> TRUE, mode |-> IteratorMode("Start", <<>>, "none")]
    ELSE IF mode = ITER_MODE_END THEN [ok |-> TRUE, mode |-> IteratorMode("End", <<>>, "none")]
    ELSE IF mode = ITER_MODE_FROM
    THEN IF direction = ITER_DIRECTION_FORWARD
         THEN [ok |-> TRUE, mode |-> IteratorMode("From", starting_key, "Forward")]
         ELSE IF direction = ITER_DIRECTION_REVERSE
         THEN [ok |-> TRUE, mode |-> IteratorMode("From", starting_key, "Reverse")]
         ELSE NoMode
    ELSE NoMode

\* the decoding at the head of get_iter: the starting key, then the mode
ModeFromKey(mode, parsed_starting_key, direction) ==
    IF parsed_starting_key.ok
    THEN parse_iterator_mode(mode, parsed_starting_key.key, direction)
    ELSE NoMode

get_iter_mode(mode, jstarting_key, direction) ==
    ModeFromKey(mode, parse_starting_key(mode, jstarting_key), direction)

\* the codes and the starting key of a get_iter call wait to be decoded
InitIter ==
    /\ csExists = FALSE
    /\ db = EmptyFcn
    /\ versions = EmptyFcn
    /\ opened = FALSE
    /\ versions_stored = 0
    /\ txs = [t \in Tx |-> NoTx]
    /\ created = EmptyFcn
    /\ commitLog = <<>>
    /\ fresh = FALSE
    /\ assigned = {}
    /\ rolledTo = -1
    /\ dummy_db = FALSE
    /\ \E mode \in Codes, key \in StartingKeys, direction \in Codes :
           lastOp = [Op("init", "ok", 0, <<>>, 0) EXCEPT !.args = <<mode, key, direction>>]

GetIterMode ==
    /\ lastOp.op = "init"
    /\ \E r \in {get_iter_mode(lastOp.args[1], lastOp.args[2], lastOp.args[3])} :
           lastOp' = [Op("get_iter", ResOf(r.ok), 0, <<>>, 0)
                         EXCEPT !.args = lastOp.args, !.out = <<r.mode>>]
    /\ UNCHANGED <<csExists, db, versions, opened, versions_stored, txs, created, commitLog,
                   fresh, assigned, rolledTo, dummy_db>>

NextIter == GetIterMode

SpecIter == InitIter /\ [][NextIter]_vars

-----------------------------------------------------------------------------
(* The host binding: how the result of a core operation reaches the host *)

\* the messages of the errors the core returns
ErrorKinds == {"Invalid argument", "IO error", "can't be removed"}

\* Ok(value) and Err(e) of a core operation
CoreOk(value) == [ok |-> TRUE, value |-> value, err |-> "none"]
CoreErr(e) == [ok |-> FALSE, value |-> "none", err |-> e]

\* what the host sees when the native method returns
Returned(value) == [thrown |-> FALSE, description |-> <<>>, returned |-> value]

\* _throw_inner: java/lang/Exception with the description; no exception is
\* pending when a binding reaches it
Thrown(description, default) ==
    [thrown |-> TRUE, description |-> description, returned |-> default]

\* format!("<text>: {:?}", e)
Described(text, e) == <<text, e>>

\* jboolean of a Rust bool
AsJboolean(value) == IF value = "true" THEN "JNI_TRUE" ELSE "JNI_FALSE"

Storage_nativeOpen(core) ==
    IF core.ok THEN Returned("object") ELSE Returned("null")

Storage_nativeIsEmpty(core) ==
    IF core.ok THEN Returned(AsJboolean(core.value)) ELSE Returned("JNI_TRUE")

Storage_nativeSetColumnFamily(core) ==
    IF core.ok THEN Returned("JNI_TRUE") ELSE Returned("JNI_FALSE")

Storage_nativeCreateTransaction(core) ==
    IF core.ok THEN Returned("object") ELSE Returned("null")

Transaction_nativeIsEmpty(core) ==
    IF core.ok THEN Returned(AsJboolean(core.value)) ELSE Returned("JNI_TRUE")

Transaction_nativeCommit(core) ==
    IF core.ok THEN Returned("JNI_TRUE") ELSE Returned("JNI_FALSE")

Transaction_nativeUpdate(converted, core) ==
    IF converted
    THEN IF core.ok THEN Returned("JNI_TRUE") ELSE Returned("JNI_FALSE")
    ELSE Returned("JNI_FALSE")

Transaction_nativeSave(core) ==
    IF core.ok THEN Returned("JNI_TRUE") ELSE Returned("JNI_FALSE")

Transaction_nativeRollbackToSavepoint(core) ==
    IF core.ok THEN Returned("JNI_TRUE") ELSE Returned("JNI_FALSE")

Transaction_nativeRollback(core) ==
    IF core.ok THEN Returned("JNI_TRUE") ELSE Returned("JNI_FALSE")

StorageVersioned_nativeOpen(_versions_stored, core) ==
    IF _versions_stored < 0
    THEN Thrown(<<"Number of stored versions can't be negative">>, "null")
    ELSE IF core.ok THEN Returned("object")
    ELSE Thrown(Described("Cannot open the versioned storage", core.err), "null")

StorageVersioned_nativeCreateTransaction(core) ==
    IF core.ok THEN Returned("object") ELSE Returned("null")

StorageVersioned_nativeRollback(core) ==
    IF core.ok THEN Returned("void")
    ELSE Thrown(Described("Cannot rollback the storage", core.err), "void")

\* cf_manager::set_column_family
cf_manager_set_column_family(core) ==
    IF core.ok THEN Returned("void")
    ELSE Thrown(Described("Cannot set column family", core.err), "void")

\* reader::is_empty
reader_is_empty(core) ==
    IF core.ok THEN Returned(AsJboolean(core.value)) ELSE Returned("JNI_TRUE")

TransactionVersioned_nativeCommit(core) ==
    IF core.ok THEN Returned("void")
    ELSE Thrown(Described("Cannot commit the transaction", core.err), "void")

\* transaction_basic::update
transaction_basic_update(converted, core) ==
    IF converted
    THEN IF core.ok THEN Returned("void")
         ELSE Thrown(Described("Cannot update column family of the transaction", core.err),
                     "void")
    ELSE Thrown(<<"Cannot convert Java list of keys to a Rust vector">>, "void")

\* transaction_basic::save
transaction_basic_save(core) ==
    IF core.ok THEN Returned("void")
    ELSE Thrown(Described("Cannot save the transaction", core.err), "void")

\* transaction_basic::rollback_to_savepoint
transaction_basic_rollback_to_savepoint(core) ==
    IF core.ok THEN Returned("void")
    ELSE Thrown(Described("Cannot rollback the transaction to save point", core.err), "void")

\* transaction_basic::rollback
transaction_basic_rollback(core) ==
    IF core.ok THEN Returned("void")
    ELSE Thrown(Described("Cannot rollback the transaction", core.err), "void")

\* the native methods that reach open, create_transaction, commit, update,
\* save, rollback, rollback_to_savepoint, set_column_family and is_empty
IsEmptyBindings ==
    {"Storage_nativeIsEmpty", "Transaction_nativeIsEmpty", "StorageVersioned_nativeIsEmpty",
     "TransactionVersioned_nativeIsEmpty"}
UpdateBindings == {"Transaction_nativeUpdate", "TransactionVersioned_nativeUpdate"}
Bindings ==
    IsEmptyBindings \cup UpdateBindings \cup
    {"Storage_nativeOpen", "Storage_nativeSetColumnFamily", "Storage_nativeCreateTransaction",
     "Transaction_nativeCommit", "Transaction_nativeSave",
     "Transaction_nativeRollbackToSavepoint", "Transaction_nativeRollback",
     "StorageVersioned_nativeOpen", "StorageVersioned_nativeCreateTransaction",
     "StorageVersioned_nativeRollback", "StorageVersioned_nativeSetColumnFamily",
     "TransactionVersioned_nativeCommit", "TransactionVersioned_nativeSave",
     "TransactionVersioned_nativeRollbackToSavepoint", "TransactionVersioned_nativeRollback"}

\* largest retention bound the host passes to nativeOpen; the smallest is -1
MaxHostBound == 1

\* what the core returns to a binding, and what the host passed to it
CoreResults(binding) ==
    { CoreErr(e) : e \in ErrorKinds } \cup
    (IF binding \in IsEmptyBindings THEN {CoreOk("true"), CoreOk("false")} ELSE {CoreOk("unit")})

HostInputs(binding) ==
    [ versions_stored : IF binding = "StorageVersioned_nativeOpen"
                        THEN (-1)..MaxHostBound ELSE {0},
      converted : IF binding \in UpdateBindings THEN BOOLEAN ELSE {TRUE},
      core : CoreResults(binding) ]

\* the native method of the name, applied
Native(binding, in) ==
    CASE binding = "Storage_nativeOpen" -> Storage_nativeOpen(in.core)
      [] binding = "Storage_nativeIsEmpty" -> Storage_nativeIsEmpty(in.core)
      [] binding = "Storage_nativeSetColumnFamily" -> Storage_nativeSetColumnFamily(in.core)
      [] binding = "Storage_nativeCreateTransaction" -> Storage_nativeCreateTransaction(in.core)
      [] binding = "Transaction_nativeIsEmpty" -> Transaction_nativeIsEmpty(in.core)
      [] binding = "Transaction_nativeCommit" -> Transaction_nativeCommit(in.core)
      [] binding = "Transaction_nativeUpdate" -> Transaction_nativeUpdate(in.converted, in.core)
      [] binding = "Transaction_nativeSave" -> Transaction_nativeSave(in.core)
      [] binding = "Transaction_nativeRollbackToSavepoint" ->
             Transaction_nativeRollbackToSavepoint(in.core)
      [] binding = "Transaction_nativeRollback" -> Transaction_nativeRollback(in.core)
      [] binding = "StorageVersioned_nativeOpen" ->
             StorageVersioned_nativeOpen(in.versions_stored, in.core)
      [] binding = "StorageVersioned_nativeCreateTransaction" ->
             StorageVersioned_nativeCreateTransaction(in.core)
      [] binding = "StorageVersioned_nativeRollback" -> StorageVersioned_nativeRollback(in.core)
      [] binding = "StorageVersioned_nativeSetColumnFamily" ->
             cf_manager_set_column_family(in.core)
      [] binding = "StorageVersioned_nativeIsEmpty" -> reader_is_empty(in.core)
      [] binding = "TransactionVersioned_nativeCommit" ->
             TransactionVersioned_nativeCommit(in.core)
      [] binding = "TransactionVersioned_nativeIsEmpty" -> reader_is_empty(in.core)
      [] binding = "TransactionVersioned_nativeUpdate" ->
             transaction_basic_update(in.converted, in.core)
      [] binding = "TransactionVersioned_nativeSave" -> transaction_basic_save(in.core)
      [] binding = "TransactionVersioned_nativeRollbackToSavepoint" ->
             transaction_basic_rollback_to_savepoint(in.core)
      [] binding = "TransactionVersioned_nativeRollback" -> transaction_basic_rollback(in.core)

\* a native method is about to return what the core gave it
InitJni ==
    /\ csExists = FALSE
    /\ db = EmptyFcn
    /\ versions = EmptyFcn
    /\ opened = FALSE
    /\ versions_stored = 0
    /\ txs = [t \in Tx |-> NoTx]
    /\ created = EmptyFcn
    /\ commitLog = <<>>
    /\ fresh = FALSE
    /\ assigned = {}
    /\ rolledTo = -1
    /\ dummy_db = FALSE
    /\ \E binding \in Bindings :
         \E in \in HostInputs(binding) :
           lastOp = [Op("init", "ok", 0, <<>>, 0) EXCEPT !.args = <<binding, in>>]

NativeReturns ==
    /\ lastOp.op = "init"
    /\ \E r \in {Native(lastOp.args[1], lastOp.args[2])} :
           lastOp' = [Op("native", ResOf(lastOp.args[2].core.ok), 0, <<>>, 0)
                         EXCEPT !.args = lastOp.args, !.out = <<r>>]
    /\ UNCHANGED <<csExists, db, versions, opened, versions_stored, txs, created, commitLog,
                   fresh, assigned, rolledTo, dummy_db>>

NextJni == NativeReturns

SpecJni == InitJni /\ [][NextJni]_vars

-----------------------------------------------------------------------------
(* A storage found on disk *)

\* the entries open may find in Versions, whoever wrote them: three version
\* directories, a second directory with the number 0, a name without the
\* delimiter, a name whose left part is no number
DiskNames ==
    { <<"0", "_", "_", "a">>, <<"1", "_", "_", "b">>, <<"2", "_", "_", "c">>,
      <<"0", "_", "_", "b">>, <<"x">>, <<"q", "_", "_", "a">> }

\* a closed storage whose Versions directory holds any of these entries
InitDisk ==
    /\ csExists = TRUE
    /\ db = EmptyDb
    /\ versions \in {[d \in S |-> EmptyDb] : S \in SUBSET DiskNames}
    /\ opened = FALSE
    /\ versions_stored = 0
    /\ txs = [t \in Tx |-> NoTx]
    /\ created = versions
    /\ commitLog = <<>>
    /\ fresh = FALSE
    /\ assigned = {ParseDirName(d)[2] : d \in {e \in DOMAIN versions : ParseDirName(e) # <<>>}}
    /\ rolledTo = -1
    /\ dummy_db = FALSE
    /\ lastOp = Op("init", "ok", 0, <<>>, 0)

SpecDisk == InitDisk /\ [][NextPlain]_vars

-----------------------------------------------------------------------------
(* Properties *)

\* the number and the ID a version directory name carries: `<N>__<id>`
DirNumber(d) == ParseUsize(SubSeq(d, 1, FirstDelimiter(d) - 1))
DirId(d) == SubSeq(d, FirstDelimiter(d) + 2, Len(d))

\* a version with this ID is present
IdPresent(id) == \E d \in DOMAIN versions : DirId(d) = id

\* the directory of the version with this ID
DirOf(id) == CHOOSE d \in DOMAIN versions : DirId(d) = id

\* the last n elements of a sequence
LastN(q, n) == IF Len(q) <= n THEN q ELSE SubSeq(q, Len(q) - n + 1, Len(q))

\* C1: a commit of a Live transaction that returns an error makes no buffered
\* write visible in the live DB and adds no version (the failure branch of the
\* all-or-nothing claim).
C1_FailedCommitChangesNothing ==
    [][(lastOp'.op = "commit" /\ lastOp'.res # "ok")
          => (db' = db /\ DOMAIN versions' = DOMAIN versions)]_vars

\* C2: after a completed open or Live commit on an opened storage with bound K
\* the Versions directory holds at most K versions.
C2_AtMostK ==
    (opened /\ lastOp.op \in {"open", "commit"})
        => Cardinality(DOMAIN versions) <= versions_stored

\* C3: the version numbers present are pairwise distinct and form a run: every
\* number but the lowest has its predecessor present.
C3_Contiguous ==
    LET nums == {DirNumber(d) : d \in DOMAIN versions}
    IN  /\ Cardinality(nums) = Cardinality(DOMAIN versions)
        /\ \A n \in nums : n >= 0 /\ ((\A o \in nums : n <= o) \/ (n - 1) \in nums)

\* a commit trimmed the oldest version and left two with neighbouring numbers
C3_Witness ==
    /\ lastOp.op = "commit" /\ lastOp.res = "ok" /\ lastOp.removed = 1
    /\ Cardinality(DOMAIN versions) = 2

\* C4: no two versions present carry the same ID, and a Live commit given the
\* ID of a version that is present fails and leaves the version set and the
\* live DB as the earlier commit left them.
C4_UniqueIds ==
    /\ [](\A d, e \in DOMAIN versions : DirId(d) = DirId(e) => d = e)
    /\ [][(lastOp'.op = "commit" /\ txs[lastOp'.tx].mode = "live" /\ IdPresent(lastOp'.id))
             => (lastOp'.res = "err" /\ versions' = versions /\ db' = db)]_vars

\* C5: a successful rollback to the version numbered n leaves exactly the
\* versions numbered <= n, each with its content.
C5_RollbackKeepsUpTo ==
    [][(lastOp'.op = "rollback" /\ lastOp'.res = "ok")
          => /\ IdPresent(lastOp'.id)
             /\ versions' = Restrict(versions,
                   {e \in DOMAIN versions : DirNumber(e) <= DirNumber(DirOf(lastOp'.id))})]_vars

\* a rollback removed a later version and kept its target
C5_Witness ==
    /\ lastOp.op = "rollback" /\ lastOp.res = "ok" /\ lastOp.removed >= 1
    /\ IdPresent(lastOp.id)

\* C6: after a successful rollback the content of the live DB is the content
\* the live DB had right after the commit that created the version.
C6_RollbackRestores ==
    [][(lastOp'.op = "rollback" /\ lastOp'.res = "ok")
          => /\ IdPresent(lastOp'.id)
             /\ db' = created[DirOf(lastOp'.id)]]_vars

\* a rollback removed a later version and brought back a key that version had
C6_Witness ==
    /\ lastOp.op = "rollback" /\ lastOp.res = "ok" /\ lastOp.removed >= 1
    /\ db[DefaultCf]["k1"] = "v1"

\* C7: commit of a Snapshot transaction fails for every ID and changes nothing;
\* no call on a Snapshot transaction changes the live DB or the versions; a
\* successful update is seen by the transaction's own reads; a Snapshot
\* transaction without writes of its own reads the version as it was created.
C7_SnapshotImmutable ==
    /\ [](\A t \in Tx : txs[t].mode = "snapshot" =>
            /\ \A id \in VersionIds :
                  /\ commit(t, id).res = "err"
                  /\ commit(t, id).db = db
                  /\ commit(t, id).versions = versions
            /\ \A u \in UpdateInputs :
                  LET r == UpdateLoop(t, txs[t].buf, u[1], u[2])
                      seen == ApplyBuf(txs[t].base, r.buf)[DefaultCf]
                  IN  (r.ok /\ ~txs[t].done) =>
                         /\ \A i \in 1..Len(u[2]) : seen[u[2][i]] = Absent
                         /\ \A i \in 1..Len(u[1]) :
                               (\A j \in 1..Len(u[2]) : u[2][j] # u[1][i][1])
                                   => seen[u[1][i][1]] = u[1][i][2]
            /\ (txs[t].buf = EmptyFcn /\ txs[t].dir \in DOMAIN created)
                  => TxContent(t) = created[txs[t].dir])
    /\ [][(lastOp'.tx \in Tx /\ txs[lastOp'.tx].mode = "snapshot"
             /\ lastOp'.op \in {"update", "commit", "drop_transaction"})
             => (db' = db /\ versions' = versions)]_vars

\* a Snapshot transaction holds a write that its own read returns, while the
\* version it is open on keeps the value it was created with
C7_Witness ==
    \E t \in Tx :
        /\ lastOp.op = "update" /\ lastOp.res = "ok" /\ lastOp.tx = t
        /\ txs[t].mode = "snapshot"
        /\ txs[t].dir \in DOMAIN versions
        /\ TxGet(t, DefaultCf, "k1") = "v2"
        /\ versions[txs[t].dir][DefaultCf]["k1"] = "v1"

\* C8: the content of every version present, and the content a Snapshot
\* transaction reads below its own writes, is the content of the live DB right
\* after the commit that created the version.
C8_SnapshotContent ==
    /\ \A d \in DOMAIN versions : versions[d] = created[d]
    /\ \A t \in Tx : (txs[t].mode = "snapshot" /\ txs[t].dir \in DOMAIN created)
                        => txs[t].base = created[txs[t].dir]

\* a Snapshot transaction reads the value its version was committed with while
\* a later commit has changed the key in the live DB
C8_Witness ==
    \E t \in Tx :
        /\ txs[t].mode = "snapshot" /\ txs[t].buf = EmptyFcn
        /\ txs[t].dir \in DOMAIN versions
        /\ TxGet(t, DefaultCf, "k1") = "v1"
        /\ db[DefaultCf]["k1"] = "v2"
        /\ Cardinality(DOMAIN versions) >= 2

\* C9: create_transaction(Some(id)) succeeds exactly when a version with this
\* ID is present and no Snapshot transaction is open on it.
C9_OpensExactlyPresent ==
    [][lastOp'.op = "create_transaction_version"
          => (lastOp'.res = "ok"
                 <=> /\ IdPresent(lastOp'.id)
                     /\ ~\E o \in Tx : /\ txs[o].mode = "snapshot"
                                       /\ txs[o].dir = DirOf(lastOp'.id))]_vars

\* what rollback_versions and last_version return describes the versions
\* present: every ID once, in ascending order of the version numbers; on a
\* storage that only saw commits since its creation, the last K IDs committed,
\* in commit order; last_version is the last element, or absent
ListDescribesVersions(r, l) ==
    /\ Len(r.ids) = Cardinality(DOMAIN versions)
    /\ \A i \in 1..Len(r.ids) : IdPresent(r.ids[i])
    /\ \A i, j \in 1..Len(r.ids) :
          i < j => DirNumber(DirOf(r.ids[i])) < DirNumber(DirOf(r.ids[j]))
    /\ (fresh /\ versions_stored > 0) => r.ids = LastN(commitLog, versions_stored)
    /\ l.ok
    /\ l.some = (DOMAIN versions # {})
    /\ l.some => l.id = r.ids[Len(r.ids)]

\* C10: on an opened storage rollback_versions returns the ID of every version
\* present once, in ascending order of the version numbers, which on a storage
\* that only saw commits since its creation is the last K IDs committed in
\* commit order; last_version returns the last element of that list, or absent
\* for the empty list.
C10_RollbackVersions ==
    opened =>
        /\ rollback_versions(DOMAIN versions).ok
        /\ ListDescribesVersions(rollback_versions(DOMAIN versions),
                                 last_version(DOMAIN versions))

\* the part of C10 that the code keeps: whenever rollback_versions returns a
\* list, the list and last_version describe the versions present
C10_ListWhenReturned ==
    rollback_versions(DOMAIN versions).ok =>
        ListDescribesVersions(rollback_versions(DOMAIN versions),
                              last_version(DOMAIN versions))

\* the transaction a completed call of slot t acted on, before the call
Before(t) == txs[t]

\* C11: save pushes the transaction's buffered writes (of all column families)
\* as the newest savepoint; a successful rollback_to_savepoint removes exactly
\* the newest savepoint and makes the buffered writes, and so the transaction's
\* reads, what they were when it was taken; the older savepoints stay as they
\* are, through writes and through rollbacks to later savepoints.
C11_SavepointsLifo ==
    [][/\ (lastOp'.op = "save")
            => /\ txs'[lastOp'.tx].saves = Append(Before(lastOp'.tx).saves, Before(lastOp'.tx).buf)
               /\ txs'[lastOp'.tx].buf = Before(lastOp'.tx).buf
       /\ (lastOp'.op \in {"update", "update_cf"})
            => txs'[lastOp'.tx].saves = Before(lastOp'.tx).saves
       /\ (lastOp'.op = "rollback_to_savepoint" /\ lastOp'.res = "ok")
            => /\ Len(Before(lastOp'.tx).saves) > 0
               /\ txs'[lastOp'.tx].buf = Before(lastOp'.tx).saves[Len(Before(lastOp'.tx).saves)]
               /\ txs'[lastOp'.tx].saves =
                     SubSeq(Before(lastOp'.tx).saves, 1, Len(Before(lastOp'.tx).saves) - 1)
               /\ ApplyBuf(db', txs'[lastOp'.tx].buf) =
                     ApplyBuf(db, Before(lastOp'.tx).saves[Len(Before(lastOp'.tx).saves)])]_vars

\* a rollback restored the writes of the second savepoint, a write of the first
\* is still read, and the first savepoint, with other writes, remains
C11_Witness ==
    /\ lastOp.op = "rollback_to_savepoint" /\ lastOp.res = "ok"
    /\ Len(txs[lastOp.tx].saves) = 1
    /\ txs[lastOp.tx].saves[1] # EmptyFcn
    /\ txs[lastOp.tx].buf # txs[lastOp.tx].saves[1]
    /\ TxGet(lastOp.tx, DefaultCf, "k1") = "v1"

\* C12: a new transaction holds no savepoint, save adds one, a successful
\* rollback_to_savepoint removes one, a successful rollback removes all; with no
\* savepoint left rollback_to_savepoint fails, with one left it succeeds, and a
\* failed call leaves the transaction, its buffered writes included, unchanged.
C12_EmptyStackFails ==
    [][/\ (lastOp'.op = "storage_create_transaction")
            => ~rollback_to_savepoint(txs'[lastOp'.tx]).ok
       /\ (lastOp'.op = "transaction_rollback" /\ lastOp'.res = "ok")
            => ~rollback_to_savepoint(txs'[lastOp'.tx]).ok
       /\ (lastOp'.op = "save")
            => Len(txs'[lastOp'.tx].saves) = Len(Before(lastOp'.tx).saves) + 1
       /\ (lastOp'.op = "rollback_to_savepoint")
            => /\ (lastOp'.res = "ok") = (Len(Before(lastOp'.tx).saves) > 0)
               /\ (lastOp'.res = "ok")
                     => Len(txs'[lastOp'.tx].saves) = Len(Before(lastOp'.tx).saves) - 1
               /\ (lastOp'.res = "err")
                     => txs'[lastOp'.tx] = Before(lastOp'.tx)]_vars

\* a rollback_to_savepoint failed on an uncommitted transaction that holds
\* buffered writes, which it still reads
C12_Witness ==
    /\ lastOp.op = "rollback_to_savepoint" /\ lastOp.res = "err"
    /\ ~txs[lastOp.tx].done
    /\ txs[lastOp.tx].saves = <<>>
    /\ TxGet(lastOp.tx, DefaultCf, "k1") = "v2"

C13_FailsRightAfterCommit ==
    /\ [](\A t \in Tx : (txs[t].mode = "plain" /\ txs[t].done) =>
            /\ ~transaction_commit(t).ok
            /\ transaction_commit(t).db = db
            /\ ~transaction_rollback(txs[t]).ok)
    /\ [][/\ (lastOp'.op = "transaction_commit" /\ lastOp'.res = "ok")
               => ~rollback_to_savepoint(txs'[lastOp'.tx]).ok
          /\ (lastOp'.tx \in Tx /\ txs[lastOp'.tx].done
                /\ lastOp'.op \in {"transaction_commit", "transaction_rollback",
                                   "rollback_to_savepoint", "save"})
               => db' = db]_vars

\* C14: rollback on an uncommitted transaction succeeds, with or without
\* buffered writes and savepoints, discards every buffered write and every
\* savepoint, and leaves the live DB alone, so that the transaction reads the
\* committed content of the live DB.
C14_RollbackDiscardsAll ==
    [][(lastOp'.op = "transaction_rollback" /\ ~Before(lastOp'.tx).done)
          => /\ lastOp'.res = "ok"
             /\ txs'[lastOp'.tx].buf = EmptyFcn
             /\ txs'[lastOp'.tx].saves = <<>>
             /\ db' = db
             /\ ApplyBuf(db', txs'[lastOp'.tx].buf) = db']_vars

\* a rollback discarded writes in two column families, and the transaction
\* reads the value committed before
C14_Witness ==
    /\ lastOp.op = "transaction_rollback" /\ lastOp.res = "ok" /\ lastOp.removed = 2
    /\ db[DefaultCf]["k1"] = "v1"
    /\ TxGet(lastOp.tx, DefaultCf, "k1") = "v1"

\* what a successful commit shows to the reads through the storage: every
\* buffered write of the transaction (a put as its value, a delete as absence)
\* and nothing else
ShowsWritesOf(tx) ==
    /\ DOMAIN db' = DOMAIN db
    /\ \A cf \in DOMAIN db, k \in Keys :
          db'[cf][k] = IF <<cf, k>> \in DOMAIN tx.buf
                       THEN (IF tx.buf[<<cf, k>>] = Tombstone THEN Absent ELSE tx.buf[<<cf, k>>])
                       ELSE db[cf][k]

\* C15: no call on a transaction before its commit changes what is read
\* through the storage: not a write, a savepoint, a rollback, nor the drop of
\* the transaction; a successful commit makes every buffered write of the
\* transaction visible at once and changes nothing else.
C15_VisibleAtCommit ==
    [][/\ (lastOp'.op \in {"update", "update_cf", "save", "rollback_to_savepoint",
                           "transaction_rollback", "drop_transaction"})
            => db' = db
       /\ (lastOp'.op \in {"transaction_commit", "commit"} /\ lastOp'.res = "ok")
            => ShowsWritesOf(Before(lastOp'.tx))]_vars

\* a commit succeeded and the storage shows the values written in two column
\* families
C15_Witness ==
    /\ lastOp.op = "transaction_commit" /\ lastOp.res = "ok"
    /\ "cf1" \in DOMAIN db
    /\ db[DefaultCf]["k1"] = "v2"
    /\ db["cf1"]["k1"] = "v1"

\* what the transaction in slot t reads with the write buffer buf
ReadsWith(t, buf) == ApplyBuf(BaseOf(t), buf)

\* the reads of slot t with buffer after are those with its own buffer, but for
\* the key k of the column family cf, which reads as v
ReadsChangedAt(t, after, cf, k, v) ==
    \A c \in DOMAIN BaseOf(t), j \in Keys :
        ReadsWith(t, after)[c][j] = IF c = cf /\ j = k THEN v ELSE TxGet(t, c, j)

\* C16: a transaction reads, for every key and column family, the committed
\* value of its DB where it holds no write of its own; after a put of the key
\* it reads the value put, after a delete it reads the key as absent, and each
\* of the two leaves the reads of every other key and column family as they were.
C16_ReadsOverlay ==
    \A t \in Tx : (txs[t].mode # "none" /\ ~txs[t].done) =>
        /\ \A cf \in DOMAIN BaseOf(t), k \in Keys :
              <<cf, k>> \notin DOMAIN txs[t].buf => TxGet(t, cf, k) = BaseOf(t)[cf][k]
        /\ \A cf \in DOMAIN BaseOf(t), k \in WrittenKeys, v \in Values :
              /\ UpdateCfLoop(t, cf, txs[t].buf, <<<<k, v>>>>, <<>>).ok
                    => ReadsChangedAt(t, UpdateCfLoop(t, cf, txs[t].buf, <<<<k, v>>>>, <<>>).buf,
                                      cf, k, v)
              /\ UpdateCfLoop(t, cf, txs[t].buf, <<>>, <<k>>).ok
                    => ReadsChangedAt(t, UpdateCfLoop(t, cf, txs[t].buf, <<>>, <<k>>).buf,
                                      cf, k, Absent)
        /\ \A k \in WrittenKeys, v \in Values :
              /\ UpdateLoop(t, txs[t].buf, <<<<k, v>>>>, <<>>).ok
                    => ReadsChangedAt(t, UpdateLoop(t, txs[t].buf, <<<<k, v>>>>, <<>>).buf,
                                      DefaultCf, k, v)
              /\ UpdateLoop(t, txs[t].buf, <<>>, <<k>>).ok
                    => ReadsChangedAt(t, UpdateLoop(t, txs[t].buf, <<>>, <<k>>).buf,
                                      DefaultCf, k, Absent)

\* a transaction reads a key it deleted as absent and a key it put with the
\* value put, while the DB holds other values for both
C16_Witness ==
    /\ lastOp.op \in {"update", "update_cf"} /\ lastOp.res = "ok"
    /\ "cf1" \in DOMAIN db
    /\ db[DefaultCf]["k1"] = "v1" /\ TxGet(lastOp.tx, DefaultCf, "k1") = Absent
    /\ db["cf1"]["k1"] = "v1" /\ TxGet(lastOp.tx, "cf1", "k1") = "v2"
    /\ TxGet(lastOp.tx, DefaultCf, "k2") = db[DefaultCf]["k2"]

\* the index of the last put of the key k in the list puts
LastPutOf(puts, k) ==
    CHOOSE i \in 1..Len(puts) : puts[i][1] = k /\ \A j \in (i + 1)..Len(puts) : puts[j][1] # k

\* what slot t reads once the puts and then the deletes are applied, in their
\* order, to the column family cf
ReadsAfterUpdate(t, cf, puts, dels) ==
    [c \in DOMAIN BaseOf(t) |-> [k \in Keys |->
        IF c # cf THEN TxGet(t, c, k)
        ELSE IF \E i \in 1..Len(dels) : dels[i] = k THEN Absent
        ELSE IF \E i \in 1..Len(puts) : puts[i][1] = k THEN puts[LastPutOf(puts, k)][2]
        ELSE TxGet(t, c, k)]]

\* C17: a successful update_cf leaves the transaction reading what applying all
\* its puts in order and then all its deletes in order gives (a key in both
\* lists is absent, the last of several puts of a key wins) and changes the
\* reads of no other column family; update does the same on the default one.
C17_PutsThenDeletes ==
    /\ [][(lastOp'.op = "update_cf" /\ lastOp'.res = "ok") =>
            \E t \in Tx :
                /\ t = lastOp'.tx
                /\ ReadsWith(t, txs[t].buf)'
                     = ReadsAfterUpdate(t, lastOp'.args[1], lastOp'.args[2], lastOp'.args[3])]_vars
    /\ [](\A t \in Tx, u \in BasicInputs :
            (txs[t].mode # "none" /\ ~txs[t].done /\ UpdateLoop(t, txs[t].buf, u[1], u[2]).ok)
                => ReadsWith(t, UpdateLoop(t, txs[t].buf, u[1], u[2]).buf)
                     = ReadsAfterUpdate(t, DefaultCf, u[1], u[2]))

\* update_cf on cf1 put k1 twice and deleted it in the same call, while the
\* transaction holds a write of k1 in the default column family, which it
\* still reads
C17_Witness ==
    /\ lastOp.op = "update_cf" /\ lastOp.res = "ok"
    /\ lastOp.args = <<"cf1", <<<<"k1", "v1">>, <<"k1", "v2">>>>, <<"k1">>>>
    /\ TxGet(lastOp.tx, "cf1", "k1") = Absent
    /\ <<DefaultCf, "k1">> \in DOMAIN txs[lastOp.tx].buf
    /\ TxGet(lastOp.tx, DefaultCf, "k1") = "v2"

\* update_cf on cf1 put k1 twice without deleting it: the second value is read
C17_WitnessLastPut ==
    /\ lastOp.op = "update_cf" /\ lastOp.res = "ok"
    /\ lastOp.args = <<"cf1", <<<<"k1", "v1">>, <<"k1", "v2">>>>, <<>>>>
    /\ TxGet(lastOp.tx, "cf1", "k1") = "v2"

\* the set of the keys of a list
KeysOf(keys) == {keys[i] : i \in 1..Len(keys)}

\* C18: the mapping multi_get / multi_get_cf returned has exactly the distinct
\* keys of the input as its keys (none for the empty input) and maps each of
\* them to what get / get_cf returns on the same reader.
C18_MultiGet ==
    lastOp.op \in {"multi_get", "multi_get_cf"} =>
        /\ DOMAIN lastOp.out = KeysOf(lastOp.args[2])
        /\ \A k \in DOMAIN lastOp.out :
              lastOp.out[k] = ReaderGet(lastOp.tx, lastOp.args[1], k)

\* multi_get_cf on a transaction with a repeated key returned one entry per
\* distinct key, with the transaction's own value of cf1 where the default
\* column family holds none
C18_Witness ==
    /\ lastOp.op = "multi_get_cf" /\ lastOp.tx = 1
    /\ lastOp.args = <<"cf1", <<"k1", "k2", "k1">>>>
    /\ Cardinality(DOMAIN lastOp.out) = 2
    /\ lastOp.out["k1"] = "v2" /\ lastOp.out["k2"] = Absent
    /\ ReaderGet(1, DefaultCf, "k1") = Absent

\* the result of StorageVersioned::open(path, create_if_missing, k) on the
\* storage as it is on disk, once it is closed
Reopen(k) == trim_versions(versions, k).res

\* C19: after every successful operation on an open storage, an open on the same
\* path succeeds once the storage is closed, whatever bound it is given.
C19_ReopenSucceeds ==
    (opened /\ lastOp.res = "ok" /\ lastOp.op \in {"open", "update", "commit", "rollback",
                                                   "create_transaction"})
        => \A k \in 0..MaxVersionsStored : Reopen(k) = "ok"

\* every open of a storage that exists succeeds: holds where no version ID
\* holds the delimiter
C19_OpenOfExistingSucceeds ==
    [][(lastOp'.op = "open" /\ csExists) => lastOp'.res = "ok"]_vars

\* a version ID the storage must not take: empty, or holding the delimiter
InvalidId(id) == id = <<>> \/ FirstDelimiter(id) # 0

\* C20: a commit of a transaction on the live DB with a version ID that is
\* empty or holds the delimiter returns an error and creates no version
\* directory, and the ID of every version directory present is nonempty and
\* holds no delimiter.
C20_InvalidIdRejected ==
    /\ [][\A t \in Tx :
            (lastOp'.op = "commit" /\ lastOp'.tx = t /\ txs[t].mode = "live"
                /\ InvalidId(lastOp'.id))
                => (lastOp'.res = "err" /\ DOMAIN versions' \subseteq DOMAIN versions)]_vars
    /\ [](\A d \in DOMAIN versions : ~InvalidId(DirId(d)))

\* C21: in every state of a storage that exists, every entry of Versions has a
\* name the parser of get_all_versions accepts as `N__id` with N a nonnegative
\* integer.
C21_EntriesParse ==
    csExists => \A d \in DOMAIN versions : ParseDirName(d) # <<>>

\* the version numbers found in Versions
NumbersFound == {DirNumber(d) : d \in DOMAIN versions} \ {-1}

\* a number is missing between two of the numbers found
NumbersHaveGap ==
    \E lo, hi \in NumbersFound : \E n \in (lo + 1)..(hi - 1) : n \notin NumbersFound

\* the name has no delimiter, or its left part is not a nonnegative integer
NameDoesNotParse(d) == FirstDelimiter(d) = 0 \/ DirNumber(d) < 0

\* C22: an open that finds version numbers with a gap, or an entry whose name
\* has no delimiter or no number on its left, fails and deletes no version
\* directory.
C22_OpenRejectsBadVersions ==
    [][(lastOp'.op = "open"
          /\ (NumbersHaveGap \/ \E d \in DOMAIN versions : NameDoesNotParse(d)))
          => (lastOp'.res = "err" /\ ~opened' /\ versions' = versions)]_vars

\* an open failed on the versions 0 and 2 and left both
C22_Witness ==
    /\ lastOp.op = "open" /\ lastOp.res = "err" /\ ~opened
    /\ DOMAIN versions = {<<"0", "_", "_", "a">>, <<"2", "_", "_", "c">>}

\* an open failed on contiguous versions next to an entry without a delimiter
C22_WitnessUnparsed ==
    /\ lastOp.op = "open" /\ lastOp.res = "err" /\ ~opened
    /\ DOMAIN versions = {<<"0", "_", "_", "a">>, <<"1", "_", "_", "b">>, <<"x">>}

\* trimming with bound k turned the entries before into the entries after:
\* nothing is deleted when at most k are present, otherwise exactly those
\* numbered below max - k + 1, and k remain
TrimmedTo(before, after, k) ==
    IF Cardinality(before) <= k THEN after = before
    ELSE /\ after = {d \in before :
                        DirNumber(d) >= MaxOf({DirNumber(e) : e \in before}) - k + 1}
         /\ Cardinality(after) = k

\* C23: an open that returns a storage with bound K, and a commit that created
\* a version on a storage with bound K, leave the versions trimmed to K: none
\* deleted when at most K are present, otherwise exactly the K highest-numbered
\* kept (none for K = 0).
C23_TrimKeepsKHighest ==
    /\ [][(lastOp'.op = "open" /\ opened')
            => TrimmedTo(DOMAIN versions, DOMAIN versions', versions_stored')]_vars
    /\ [][(lastOp'.op = "commit" /\ DOMAIN versions' # DOMAIN versions)
            => TrimmedTo(DOMAIN versions \cup DOMAIN versions', DOMAIN versions',
                         versions_stored)]_vars

\* the version directories a step has added
NewVersions == DOMAIN versions' \ DOMAIN versions

\* C24: the number of a newly created version is greater than every version
\* number assigned before on this path, whether the version that carried it is
\* still present, was trimmed or was removed by a rollback.
C24_NumbersNeverReused ==
    [][lastOp'.op = "commit" =>
          \A d \in NewVersions : \A n \in assigned : DirNumber(d) > n]_vars

\* C24 as amended: the number of a newly created version is greater than the
\* number of every version present when it is created, and is 0 when none is
\* present.
C24_NumberAbovePresent ==
    [][lastOp'.op = "commit" =>
          \A d \in NewVersions :
              /\ \A e \in DOMAIN versions : DirNumber(d) > DirNumber(e)
              /\ DOMAIN versions = {} => DirNumber(d) = 0]_vars

\* a commit created version 2 next to version 1 after version 0 was trimmed
C24_Witness ==
    /\ lastOp.op = "commit" /\ lastOp.res = "ok" /\ lastOp.removed = 1
    /\ IdPresent(lastOp.id) /\ DirNumber(DirOf(lastOp.id)) = 2
    /\ NumbersFound = {1, 2}
    /\ assigned = {0, 1, 2}

\* a Snapshot transaction is alive on the version directory d
SnapshotOpenOn(d) == \E o \in Tx : txs[o].mode = "snapshot" /\ txs[o].dir = d

\* C25: while a Snapshot transaction is alive on a version that is present,
\* create_transaction(Some(id)) fails for this version, succeeds for every
\* other version present that no Snapshot transaction is on, and
\* create_transaction(None) succeeds; right after a Snapshot transaction on a
\* version present is dropped, create_transaction(Some(id)) succeeds for this
\* version.
C25_OneSnapshotPerVersion ==
    /\ \A t \in Tx : (opened /\ txs[t].mode = "snapshot" /\ txs[t].dir \in DOMAIN versions) =>
          /\ ~create_transaction(TRUE, DirId(txs[t].dir)).ok
          /\ \A d \in DOMAIN versions :
                ~SnapshotOpenOn(d) => create_transaction(TRUE, DirId(d)).ok
          /\ create_transaction(FALSE, <<>>).ok
    /\ (opened /\ lastOp.op = "drop_transaction" /\ lastOp.args[1] = "snapshot"
          /\ lastOp.args[2] \in DOMAIN versions)
          => create_transaction(TRUE, DirId(lastOp.args[2])).ok

\* C26: a rollback to an ID that no version present carries fails, and a
\* rollback that fails (the version is unknown, or its directory could not be
\* copied) leaves the storage open, the live DB with its content and the
\* versions as they were.
C26_FailedRollbackChangesNothing ==
    [][lastOp'.op = "rollback" =>
          /\ ~IdPresent(lastOp'.id) => lastOp'.res = "err"
          /\ lastOp'.res = "err" => (opened' /\ db' = db /\ versions' = versions)]_vars

\* a rollback to an ID no version carries failed on a storage that holds a
\* version and a key
C26_Witness ==
    /\ lastOp.op = "rollback" /\ lastOp.res = "err" /\ ~IdPresent(lastOp.id)
    /\ opened /\ DOMAIN versions # {} /\ db[DefaultCf]["k1"] = "v1"

\* a rollback to a version present failed and left the version after it
C26_WitnessNotCopied ==
    /\ lastOp.op = "rollback" /\ lastOp.res = "err" /\ IdPresent(lastOp.id)
    /\ opened /\ \E d \in DOMAIN versions : DirNumber(d) > DirNumber(DirOf(lastOp.id))

\* C27: set_column_family(name) succeeds, leaves the DB as it is when the
\* column family exists and otherwise adds it, empty, and the column family
\* exists afterwards; close and open of an existing storage keep every column
\* family; an opened storage has the default column family; and a column
\* family that does not exist comes to exist only by set_column_family of its
\* name (the default one by the open that creates the storage).
C27_SetColumnFamilyIdempotent ==
    /\ [][\A cf \in CfNames : (lastOp'.op = "set_column_family" /\ lastOp'.args = <<cf>>) =>
            /\ lastOp'.res = "ok"
            /\ cf \in DOMAIN db'
            /\ get_column_family(cf) => db' = db
            /\ ~get_column_family(cf) => db' = create_cf(db, cf)]_vars
    /\ [][(lastOp'.op \in {"close", "storage_open"} /\ csExists) => db' = db]_vars
    /\ [](opened => get_column_family(DefaultCf))
    /\ [][\A cf \in CfNames \cup {DefaultCf} : (cf \notin DOMAIN db /\ cf \in DOMAIN db') =>
            \/ lastOp'.op = "set_column_family" /\ lastOp'.args = <<cf>>
            \/ cf = DefaultCf /\ lastOp'.op = "storage_open" /\ ~csExists]_vars

\* set_column_family was called for a column family that holds a key, and the
\* key is still there
C27_Witness ==
    /\ lastOp.op = "set_column_family" /\ lastOp.args = <<"cf1">>
    /\ db["cf1"]["k1"] = "v2"

\* an existing storage was opened again and has the column family set before
\* it was closed
C27_WitnessReopened ==
    /\ lastOp.op = "storage_open" /\ lastOp.res = "ok"
    /\ get_column_family("cf1") /\ db["cf1"]["k1"] = "v1"

\* C28: an open with create_if_missing = false of a storage that does not
\* exist fails and creates nothing; an open with create_if_missing = true of
\* a storage that does not exist creates it, opened and empty; an open with
\* create_if_missing = false of a storage as it was created succeeds and the
\* storage is empty.
C28_CreateIfMissing ==
    [][lastOp'.op \in {"open", "storage_open"} =>
          /\ (~csExists /\ lastOp'.args = <<FALSE>>)
                => (lastOp'.res = "err" /\ ~csExists' /\ ~opened'
                       /\ db' = db /\ versions' = versions)
          /\ (~csExists /\ lastOp'.args = <<TRUE>>)
                => (lastOp'.res = "ok" /\ csExists' /\ opened'
                       /\ db' = EmptyDb /\ versions' = EmptyFcn)
          /\ (csExists /\ db = EmptyDb /\ versions = EmptyFcn /\ lastOp'.args = <<FALSE>>)
                => (lastOp'.res = "ok" /\ opened' /\ db' = EmptyDb)]_vars

\* an open with create_if_missing = false failed and no storage exists
C28_Witness ==
    lastOp.op = "open" /\ lastOp.args = <<FALSE>> /\ lastOp.res = "err" /\ ~csExists

\* an open with create_if_missing = false succeeded on a storage that exists
\* and is empty
C28_WitnessReopened ==
    /\ lastOp.op = "open" /\ lastOp.args = <<FALSE>> /\ lastOp.res = "ok"
    /\ opened /\ db = EmptyDb

\* C29: get_column_family(name) of a versioned transaction fails for every
\* name when the transaction is Live; on a Snapshot transaction it succeeds
\* and returns a handle exactly when the version the transaction is on holds
\* a column family of that name, which it always does for "default".
C29_TxGetColumnFamily ==
    lastOp.op = "transaction_get_column_family" =>
        /\ txs[lastOp.tx].mode = "live" => lastOp.res = "err"
        /\ txs[lastOp.tx].mode = "snapshot" =>
              /\ lastOp.res = "ok"
              /\ txs[lastOp.tx].dir \in DOMAIN versions
              /\ lastOp.out = <<lastOp.args[1] \in DOMAIN versions[txs[lastOp.tx].dir]>>
              /\ lastOp.args[1] = DefaultCf => lastOp.out = <<TRUE>>

\* a Snapshot transaction was asked for a column family the live DB has and its
\* version has not, and got none
C29_Witness ==
    /\ lastOp.op = "transaction_get_column_family" /\ lastOp.res = "ok"
    /\ txs[lastOp.tx].mode = "snapshot"
    /\ lastOp.args[1] \in DOMAIN db /\ lastOp.out = <<FALSE>>

\* a Snapshot transaction got the handle of a column family other than "default"
C29_WitnessHandle ==
    /\ lastOp.op = "transaction_get_column_family" /\ lastOp.res = "ok"
    /\ lastOp.args[1] # DefaultCf /\ lastOp.out = <<TRUE>>

\* a Live transaction was refused the handle of "default"
C29_WitnessLive ==
    /\ lastOp.op = "transaction_get_column_family" /\ lastOp.res = "err"
    /\ txs[lastOp.tx].mode = "live" /\ lastOp.args[1] = DefaultCf

\* the writes buffered by the transaction in slot t are in the content after
\* and nothing else differs from the content before
WritesApplied(t, before, after) ==
    /\ DOMAIN after = DOMAIN before
    /\ \A cf \in DOMAIN before : \A k \in Keys :
          after[cf][k] = IF <<cf, k>> \in DOMAIN txs[t].buf
                         THEN Visible(txs[t].buf[<<cf, k>>])
                         ELSE before[cf][k]

\* C30: with retention bound 0 the commit of a Live transaction returns Ok,
\* applies its writes to the live DB and creates no version, whatever the
\* version ID; while a storage opened with bound 0 is open there is no
\* version, last_version() is absent and create_transaction(Some(id)) fails
\* for every id.
C30_NoVersionsAtZero ==
    /\ []((opened /\ versions_stored = 0) =>
             /\ versions = EmptyFcn
             /\ last_version(DOMAIN versions).ok /\ ~last_version(DOMAIN versions).some
             /\ \A id \in VersionIds : ~create_transaction(TRUE, id).ok)
    /\ [][\A t \in Tx :
            (lastOp'.op = "commit" /\ lastOp'.tx = t /\ versions_stored = 0
                /\ txs[t].mode = "live" /\ ~txs[t].done)
            => (lastOp'.res = "ok" /\ WritesApplied(t, db, db') /\ versions' = versions)]_vars

\* with bound 0 a commit returned Ok for the version ID of the commit before
\* it, the live DB holds a committed write and there is no version
C30_Witness ==
    /\ opened /\ versions_stored = 0
    /\ lastOp.op = "commit" /\ lastOp.res = "ok" /\ lastOp.args = <<TRUE>>
    /\ db # EmptyDb /\ versions = EmptyFcn

\* a storage that held versions is open with bound 0
C30_WitnessTrimmed ==
    /\ opened /\ versions_stored = 0
    /\ lastOp.op = "open" /\ lastOp.removed > 0

\* the elements of a vector
ElementsOf(set) == {set[i] : i \in 1..Len(set)}

\* the vector is a permutation of a run a, a+1, ..., a+k, or is empty
IsRun(set) ==
    /\ Cardinality(ElementsOf(set)) = Len(set)
    /\ \A lo, hi \in ElementsOf(set) : \A n \in lo..hi : n \in ElementsOf(set)

\* C31: is_contiguous_set returns true for the empty vector, for every vector
\* of one element and for every permutation of a run a, a+1, ..., a+k, and
\* returns false for every vector with a gap or a repeated element, whatever
\* the order of the input.
C31_ContiguousExactly ==
    lastOp.op = "is_contiguous_set" =>
        (lastOp.res = "ok" /\ lastOp.out = <<IsRun(lastOp.args[1])>>)

\* C31 where no addition overflows: the value returned is true exactly for
\* the permutations of runs
C31_ContiguousWhenReturned ==
    (lastOp.op = "is_contiguous_set" /\ lastOp.res = "ok")
        => lastOp.out = <<IsRun(lastOp.args[1])>>

\* a commit has returned Ok and created a version
CommitCreated == lastOp'.op = "commit" /\ lastOp'.res = "ok" /\ NewVersions # {}

\* the new version carries max(numbers present) + 1, or 0 when none is present
NumberedNext ==
    \A d \in NewVersions :
        DirNumber(d) = IF NumbersFound = {} THEN 0 ELSE MaxOf(NumbersFound) + 1

\* after a rollback to the version numbered rolledTo the new version has the
\* number rolledTo + 1 and last_version() is its ID
NumberedAfterRollback ==
    \A d \in NewVersions :
        /\ DirNumber(d) = rolledTo + 1
        /\ last_version(DOMAIN versions') = [ok |-> TRUE, some |-> TRUE, id |-> DirId(d)]

\* C32: every successful version creation assigns max(numbers present) + 1,
\* or 0 when no version is present; after a successful rollback to the
\* version numbered n and a successful Live commit with a fresh ID the new
\* version has number n + 1, last_version() is the new ID and
\* rollback_versions() is the IDs of the versions numbered <= n followed by
\* the new ID.
C32_NextAfterRollback ==
    [][CommitCreated =>
          /\ NumberedNext
          /\ rolledTo >= 0 =>
                /\ NumberedAfterRollback
                /\ \A d \in NewVersions :
                      rollback_versions(DOMAIN versions').ids
                         = rollback_versions(DOMAIN versions).ids \o <<DirId(d)>>]_vars

\* C32 as amended: the same, with rollback_versions() being the IDs of the
\* versions numbered <= n followed by the new ID, cut to the last K of them
\* by the retention bound K.
C32_NextAfterRollbackTrimmed ==
    [][CommitCreated =>
          /\ NumberedNext
          /\ rolledTo >= 0 =>
                /\ NumberedAfterRollback
                /\ \A d \in NewVersions :
                      rollback_versions(DOMAIN versions').ids
                         = LastN(rollback_versions(DOMAIN versions).ids \o <<DirId(d)>>,
                                 versions_stored)]_vars

\* a commit after a rollback to the version numbered 0 created the version
\* numbered 1 and the retention bound removed the version restored
C32_Witness ==
    /\ lastOp.op = "commit" /\ lastOp.res = "ok" /\ lastOp.out[1] = 0
    /\ lastOp.removed = 1
    /\ \E d \in DOMAIN versions : DirNumber(d) = 1 /\ DirId(d) = lastOp.id

\* a commit after a rollback to the version numbered 0 created the version
\* numbered 1 and both versions are present
C32_WitnessKept ==
    /\ lastOp.op = "commit" /\ lastOp.res = "ok" /\ lastOp.out[1] = 0
    /\ lastOp.removed = 0
    /\ Cardinality(DOMAIN versions) = 2
    /\ \E d \in DOMAIN versions : DirNumber(d) = 1 /\ DirId(d) = lastOp.id

\* the name has the delimiter and the part left of its first occurrence is a number
HasNumberAndRemainder(d) == FirstDelimiter(d) > 0 /\ DirNumber(d) >= 0

\* C33: the parser splits a directory name on the first occurrence of `__`
\* only: a name with an integer prefix, the delimiter and a remainder is
\* accepted as (remainder -> number) even when the remainder holds `__`, and
\* a name is rejected only when it has fewer than two parts or its left part
\* is not a nonnegative integer.
C33_SplitsOnFirstDelimiter ==
    lastOp.op = "parse_dir_name" =>
        lastOp.out = IF HasNumberAndRemainder(lastOp.args[1])
                     THEN <<DirId(lastOp.args[1]), DirNumber(lastOp.args[1])>>
                     ELSE <<>>

\* C33 as amended: the parser splits on every occurrence of `__`: a name
\* with an integer prefix, the delimiter and a remainder is accepted as
\* (remainder -> number) exactly when the remainder holds no `__`, and is
\* rejected otherwise.
C33_ExactlyTwoParts ==
    lastOp.op = "parse_dir_name" =>
        lastOp.out = IF /\ HasNumberAndRemainder(lastOp.args[1])
                        /\ FirstDelimiter(DirId(lastOp.args[1])) = 0
                     THEN <<DirId(lastOp.args[1]), DirNumber(lastOp.args[1])>>
                     ELSE <<>>

\* a name with a number, the delimiter and a remainder that holds the
\* delimiter was rejected
C33_Witness ==
    /\ lastOp.op = "parse_dir_name" /\ lastOp.out = <<>>
    /\ lastOp.args = << <<"0", "_", "_", "a", "_", "_">> >>

\* a name with a number, the delimiter and a remainder was accepted
C33_WitnessAccepted ==
    /\ lastOp.op = "parse_dir_name"
    /\ lastOp.args = << <<"+", "0", "_", "_", "_", "a">> >>
    /\ lastOp.out = << <<"_", "a">>, 0 >>

\* the versions numbered above the version with this ID
LaterThan(id) ==
    {d \in DOMAIN versions :
        \E e \in DOMAIN versions : DirId(e) = id /\ DirNumber(d) > DirNumber(e)}

\* C34: rollback copies the version, closes the live DB, removes
\* CurrentState, renames the copy, reopens the DB and only then deletes the
\* later versions: a rollback whose rename fails returns an error and leaves
\* no CurrentState, the dummy DB handle and every version in place, the
\* version being restored among them; a rollback that returns Ok leaves
\* CurrentState with the version's content, an open DB and no later version.
C34_RenameFailureDegrades ==
    [][lastOp'.op = "rollback" =>
          /\ lastOp'.args = <<"rename">> =>
                /\ lastOp'.res = "err"
                /\ ~csExists' /\ dummy_db'
                /\ versions' = versions
                /\ \E d \in DOMAIN versions' : DirId(d) = lastOp'.id
          /\ lastOp'.res = "ok" =>
                /\ csExists' /\ ~dummy_db'
                /\ \E d \in DOMAIN versions : DirId(d) = lastOp'.id /\ db' = versions[d]
                /\ DOMAIN versions' = DOMAIN versions \ LaterThan(lastOp'.id)]_vars

\* a rollback to a version that is not the latest failed at the rename: there
\* is no CurrentState, the handle is the dummy and the later version is present
C34_Witness ==
    /\ lastOp.op = "rollback" /\ lastOp.args = <<"rename">> /\ lastOp.res = "err"
    /\ opened /\ ~csExists /\ dummy_db
    /\ LaterThan(lastOp.id) # {}

\* the assertion of trim_versions for the bound k on the versions found:
\* more than k versions have a highest number of at least k
AssertionHolds(k, all_versions) ==
    (all_versions.ok /\ Cardinality(DOMAIN all_versions.map) > k)
        => MaxOf(NumbersOf(all_versions)) >= k

\* C35: the assertion max_version_number >= versions_stored of trim_versions
\* holds whenever it is evaluated: no call has ended in its panic, and for
\* every Versions directory reached and every retention bound, more versions
\* than the bound with contiguous numbers have a highest number of at least
\* the bound, so max_version_number - versions_stored + 1 does not underflow.
C35_TrimAssertionHolds ==
    /\ lastOp.res # "panic"
    /\ \A k \in 0..(MaxVersionsStored + 1) :
          /\ AssertionHolds(k, get_all_versions(DOMAIN versions))
          /\ trim_versions(versions, k).res # "panic"

\* an open trimmed a directory whose highest number equals the bound
C35_Witness ==
    /\ lastOp.op = "open" /\ lastOp.res = "ok" /\ lastOp.removed = 1
    /\ versions_stored = 1
    /\ DOMAIN versions = {<<"1", "_", "_", "b">>}

\* an open found two directories with the number 0 and removed nothing
C35_WitnessRepeated ==
    /\ lastOp.op = "open" /\ lastOp.res = "err" /\ lastOp.args = <<TRUE>>
    /\ DOMAIN versions = {<<"0", "_", "_", "a">>, <<"0", "_", "_", "b">>}

\* the ID was given to a commit that returned Ok since the storage was created
InCommitLog(id) == \E i \in 1..Len(commitLog) : commitLog[i] = id

\* a commit of a Live transaction not committed before has completed
LiveCommitBy(t) ==
    lastOp'.op = "commit" /\ lastOp'.tx = t /\ txs[t].mode = "live" /\ ~txs[t].done

\* the commit has returned Ok and created a version with its ID
CreatedItsVersion ==
    lastOp'.res = "ok" /\ \E d \in NewVersions : DirId(d) = lastOp'.id

\* C36: the duplicate-ID check of a Live commit looks at the versions present
\* only: a Live commit with the ID of a version that retention trimming has
\* removed (on a storage that has seen nothing but commits since it was
\* created, an ID that a commit was given and that no version present carries)
\* returns Ok and creates a new version with that ID.
C36_RemovedIdReusable ==
    [][\A t \in Tx :
          (LiveCommitBy(t) /\ fresh /\ InCommitLog(lastOp'.id) /\ ~IdPresent(lastOp'.id))
             => CreatedItsVersion]_vars

\* what the code keeps of C36: with a retention bound of at least 1 a Live
\* commit with an ID that no version present carries returns Ok and creates a
\* version with that ID, whatever was removed before.
C36_AbsentIdAccepted ==
    [][\A t \in Tx :
          (LiveCommitBy(t) /\ versions_stored > 0 /\ ~IdPresent(lastOp'.id))
             => CreatedItsVersion]_vars

\* the ID of the version directory d is gone: rollback_versions() does not
\* list it and create_transaction(Some(id)) fails
IdGone(d) ==
    /\ rollback_versions(DOMAIN versions).ok
          => ~\E i \in 1..Len(rollback_versions(DOMAIN versions).ids) :
                 rollback_versions(DOMAIN versions).ids[i] = DirId(d)
    /\ ~create_transaction(TRUE, DirId(d)).ok

\* C37: the trimming of a Live commit takes no account of Snapshot
\* transactions: a commit that returns Ok and creates a version leaves the K
\* highest-numbered versions whatever transactions are open; a commit that
\* removes a version with a Snapshot transaction alive on it has returned Ok
\* and leaves that transaction alive; while no version carries the ID of the
\* removed version it is absent from rollback_versions() and
\* create_transaction(Some(id)) fails for it, also right after the Snapshot
\* transaction is dropped.
C37_TrimIgnoresSnapshots ==
    /\ [][(lastOp'.op = "commit" /\ lastOp'.res = "ok" /\ NewVersions # {})
             => TrimmedTo(DOMAIN versions \cup DOMAIN versions', DOMAIN versions',
                          versions_stored)]_vars
    /\ [][\A t \in Tx :
             (lastOp'.op = "commit" /\ txs[t].mode = "snapshot"
                 /\ txs[t].dir \in DOMAIN versions \ DOMAIN versions')
             => (lastOp'.res = "ok" /\ txs'[t] = txs[t])]_vars
    /\ [](\A t \in Tx :
             (opened /\ txs[t].mode = "snapshot" /\ txs[t].dir \notin DOMAIN versions
                 /\ ~IdPresent(DirId(txs[t].dir)))
             => IdGone(txs[t].dir))
    /\ []((opened /\ lastOp.op = "drop_transaction" /\ lastOp.args[1] = "snapshot"
              /\ lastOp.args[2] \notin DOMAIN versions /\ ~IdPresent(DirId(lastOp.args[2])))
             => IdGone(lastOp.args[2]))

\* a commit has removed the version a Snapshot transaction is alive on
C37_Witness ==
    /\ lastOp.op = "commit" /\ lastOp.res = "ok" /\ lastOp.removed = 1
    /\ \E t \in Tx : /\ txs[t].mode = "snapshot"
                     /\ txs[t].dir \notin DOMAIN versions
                     /\ ~create_transaction(TRUE, DirId(txs[t].dir)).ok

\* the Snapshot transaction on a removed version was dropped and the version
\* cannot be opened
C37_WitnessDropped ==
    /\ opened /\ lastOp.op = "drop_transaction" /\ lastOp.args[1] = "snapshot"
    /\ lastOp.args[2] \notin DOMAIN versions
    /\ ~create_transaction(TRUE, DirId(lastOp.args[2])).ok

\* C38: mode codes decode as 0 = Start, 1 = End, 2 = From, direction codes as
\* 0 = Forward, 1 = Reverse; decoding fails exactly when the mode is From and
\* no starting key is given, when the mode code is none of 0, 1, 2, and when
\* the mode is From and the direction code is neither 0 nor 1; for Start and
\* End the starting key and the direction code make no difference.
C38_IteratorModeCodes ==
    lastOp.op = "get_iter" =>
        LET mode == lastOp.args[1]
            key == lastOp.args[2]
            direction == lastOp.args[3]
        IN  /\ mode = 0 => (lastOp.res = "ok" /\ lastOp.out[1].kind = "Start")
            /\ mode = 1 => (lastOp.res = "ok" /\ lastOp.out[1].kind = "End")
            /\ (mode = 2 /\ ~key.null /\ direction \in {0, 1}) =>
                  /\ lastOp.res = "ok"
                  /\ lastOp.out[1].kind = "From"
                  /\ lastOp.out[1].key = key.bytes
                  /\ lastOp.out[1].direction = IF direction = 0 THEN "Forward" ELSE "Reverse"
            /\ (mode = 2 /\ key.null) => lastOp.res = "err"
            /\ (mode = 2 /\ direction \notin {0, 1}) => lastOp.res = "err"
            /\ mode \notin {0, 1, 2} => lastOp.res = "err"
            /\ mode \in {0, 1} => lastOp.out[1] = get_iter_mode(mode, [null |-> TRUE, bytes |-> <<>>], 0).mode

\* mode End was decoded with a starting key and a direction code that is no direction
C38_Witness ==
    /\ lastOp.op = "get_iter" /\ lastOp.res = "ok"
    /\ lastOp.args = <<1, [null |-> FALSE, bytes |-> <<"k1">>], 3>>
    /\ lastOp.out[1].kind = "End"

\* mode From without a starting key was refused
C38_WitnessNoKey ==
    /\ lastOp.op = "get_iter" /\ lastOp.res = "err"
    /\ lastOp.args = <<2, [null |-> TRUE, bytes |-> <<>>], 0>>

\* mode From was decoded with its key, in reverse
C38_WitnessFrom ==
    /\ lastOp.op = "get_iter" /\ lastOp.res = "ok"
    /\ lastOp.args[1] = 2 /\ lastOp.args[3] = 1
    /\ lastOp.out[1] = [kind |-> "From", key |-> <<"k1">>, direction |-> "Reverse"]

\* the core operation of the native method was reached and returned an error
CoreErrorReached ==
    /\ lastOp.op = "native"
    /\ ~lastOp.args[2].core.ok
    /\ lastOp.args[2].versions_stored >= 0
    /\ lastOp.args[2].converted

\* C39: every error a core operation returns through the host binding reaches
\* the host as an exception that carries the error, and a negative retention
\* bound does too; none is reported as a null or false return value or as a
\* normal result.
C39_CoreErrorsAreExceptions ==
    /\ CoreErrorReached =>
          /\ lastOp.out[1].thrown
          /\ Len(lastOp.out[1].description) = 2
          /\ lastOp.out[1].description[2] = lastOp.args[2].core.err
    /\ (lastOp.op = "native" /\ lastOp.args[2].versions_stored < 0) => lastOp.out[1].thrown

\* the native methods whose core errors do reach the host as exceptions
ThrowingBindings ==
    {"StorageVersioned_nativeOpen", "StorageVersioned_nativeRollback",
     "StorageVersioned_nativeSetColumnFamily", "TransactionVersioned_nativeCommit",
     "TransactionVersioned_nativeUpdate", "TransactionVersioned_nativeSave",
     "TransactionVersioned_nativeRollbackToSavepoint", "TransactionVersioned_nativeRollback"}

\* the part of C39 the code keeps: the versioned storage's open, rollback and
\* set_column_family and its transaction's commit, update, save, rollback and
\* rollback_to_savepoint throw an exception that carries the core's error
C39_VersionedErrorsAreExceptions ==
    (CoreErrorReached /\ lastOp.args[1] \in ThrowingBindings) =>
        /\ lastOp.out[1].thrown
        /\ lastOp.out[1].description[2] = lastOp.args[2].core.err

\* everywhere else a core error comes back as a return value and no exception
C39_OthersReturnValues ==
    (CoreErrorReached /\ lastOp.args[1] \notin ThrowingBindings) =>
        /\ ~lastOp.out[1].thrown
        /\ lastOp.out[1].returned \in {"null", "JNI_FALSE", "JNI_TRUE"}

=============================================================================
